---------------------------- MODULE Spec2Model ----------------------------
(***************************************************************************)
(* A model of the ownership-transfer engine, the decay scheduler and the   *)
(* destination-resolution loops of src/src/game.cpp.                       *)
(*                                                                         *)
(* game.cpp is the only translation unit of the repository in src/.  The   *)
(* holder ("Cylinder") implementations, the Item class and the item type   *)
(* table live in files that are not part of it; the definitions of the     *)
(* section "Holder protocol" below are modelled from spec.md section 4.1   *)
(* and section 3, every other operator is a translation of game.cpp.       *)
(***************************************************************************)
EXTENDS Integers, Sequences, FiniteSets, TLC

(***************************************************************************)
(* Program constants.  They are used by game.cpp (lines 1075, 4548, 4561,  *)
(* 1102, 1185); their values are set in headers.                           *)
(***************************************************************************)
MAP_MAX_LAYERS == 16
EVENT_DECAYINTERVAL == 250
EVENT_DECAY_BUCKETS == 4
EVENT_CREATURECOUNT == 2
INDEX_WHEREEVER == -1
StackSize == 100

(***************************************************************************)
(* Bounds of the model.                                                    *)
(***************************************************************************)
BagCap == 1
MaxDurSteps == 3
MaxToRelease == 1

Min(a, b) == IF a < b THEN a ELSE b
Max(a, b) == IF a > b THEN a ELSE b

(***************************************************************************)
(* The universe: item objects, fixed holders (map tiles and the hand of    *)
(* each of three players).  A container item is a holder too.              *)
(***************************************************************************)
ItemSeq == <<"i1", "i2", "i3", "i4">>
Items == {ItemSeq[k] : k \in 1..Len(ItemSeq)}
Tiles == {"T1", "T2", "T3"}
Slots == {"S1", "S2", "S3"}
Holders == Tiles \cup Slots \cup Items
NoItem == "noitem"
NoHolder == "noholder"
NoType == "notype"

(***************************************************************************)
(* Players that trade (player.h, not in src/): the fields game.cpp reads   *)
(* and writes.  Every player is online; its inventory is its right hand.   *)
(***************************************************************************)
PlayerSeq == <<"p1", "p2", "p3">>
Players == {PlayerSeq[k] : k \in 1..Len(PlayerSeq)}
NoPlayer == "noplayer"
TradeStates ==
  {"TRADE_NONE", "TRADE_INITIATED", "TRADE_ACCEPT", "TRADE_ACKNOWLEDGE",
   "TRADE_TRANSFER"}
NoTrade ==
  [tradeState |-> "TRADE_NONE", tradePartner |-> NoPlayer,
   tradeItem |-> NoItem]
\* Player::getID; the ids of players are apart from those of the creatures
getID(p) == 10 + (CHOOSE k \in 1..Len(PlayerSeq) : PlayerSeq[k] = p)
\* the right hand of each player; the player is a holder too, that answers
\* for its hand and for the container in it
Hand == [p \in Players |-> CASE p = "p1" -> "S1" [] p = "p2" -> "S2"
                                [] OTHER -> "S3"]

(***************************************************************************)
(* Item::items, the item type table.  decayTo: "nodecay" is getDecayTo()   *)
(* < 0, "remove" is 0, a type id is > 0.  decayTime is in milliseconds.    *)
(***************************************************************************)
TypeIds ==
  {"coin", "gem", "spore", "torch", "ember", "field", "moss", "bag", "chest",
   "anvil", "sword"}
ItemType ==
  [t \in TypeIds |->
     [stackable   |-> t \in {"coin", "gem", "spore"},
      container   |-> t \in {"bag", "chest"},
      maxItems    |-> IF t = "bag" THEN BagCap
                      ELSE IF t = "chest" THEN BagCap + 1 ELSE 0,
      alwaysOnTop |-> t = "moss",
      moveable    |-> t # "moss",
      heavy       |-> t = "anvil",
      type        |-> IF t = "field" THEN "magicfield"
                      ELSE IF t \in {"bag", "chest"} THEN "container"
                      ELSE "none",
      decayTime   |-> IF t \in {"torch", "field", "spore"}
                      THEN 3 * EVENT_DECAYINTERVAL
                      ELSE IF t = "ember" THEN 5 * EVENT_DECAYINTERVAL ELSE 0,
      decayTo     |-> CASE t = "torch" -> "ember"
                        [] t = "ember" -> "remove"
                        [] t = "field" -> "remove"
                        [] t = "spore" -> "remove"
                        [] OTHER -> "nodecay"]]

FreeItem ==
  [id |-> NoType, count |-> 0, parent |-> NoHolder, duration |-> 0,
   decaying |-> FALSE, refs |-> 0, age |-> 0, d0 |-> 0]

VARIABLES
  item,            \* [Items -> record]: the fields of every Item object
  contents,        \* [Holders -> Seq(Items)]: each holder's child list
  redirect,        \* [Tiles -> Tiles]: Tile::queryDestination's floor change
  decayItems,      \* [0..EVENT_DECAY_BUCKETS-1 -> Seq(Items)]
  toDecayItems,    \* Seq(Items), the pending list
  lastBucket,
  ToReleaseItems,  \* Seq(Items)
  creatureTile,    \* the tile the creature stands on
  creature,        \* [Creatures -> record]: the fields of every Creature
  checkCreatureLists,  \* [0..EVENT_CREATURECOUNT-1 -> Seq(Creatures)]
  ToReleaseCreatures,  \* Seq(Creatures)
  scheduler,       \* the player's pending tasks: next action, next walk action
  player,          \* [Players -> record]: the trade fields of every Player
  tradeItems,      \* [Items -> player id]: Game::tradeItems, 0 for no entry
  log,             \* the mutations, notifications and hooks of the last call
  last,            \* the last call: its operation, item and outcome
  catalogue        \* [Items -> kind]: what a caller constructs in each object

creatureVars == <<creature, checkCreatureLists, ToReleaseCreatures>>
tradeVars == <<player, tradeItems>>

vars == <<item, contents, redirect, decayItems, toDecayItems, lastBucket,
          ToReleaseItems, creatureTile, creatureVars, scheduler, tradeVars,
          log, last, catalogue>>

(***************************************************************************)
(* The operations of game.cpp are sequential code with early returns.      *)
(* They are written as operators from a world record w (the mutable state  *)
(* the operation can touch) to the world it leaves.                        *)
(***************************************************************************)
World ==
  [item |-> item, contents |-> contents, decayItems |-> decayItems,
   toDecayItems |-> toDecayItems, ToReleaseItems |-> ToReleaseItems,
   log |-> <<>>]

Log(w, e) == [w EXCEPT !.log = Append(@, e)]

IndexOf(s, x) ==
  IF \E k \in 1..Len(s) : s[k] = x
  THEN (CHOOSE k \in 1..Len(s) : s[k] = x) - 1
  ELSE -1

RemoveAt(s, k) == SubSeq(s, 1, k - 1) \o SubSeq(s, k + 1, Len(s))
RemoveAll(s, x) == SelectSeq(s, LAMBDA y : y # x)
Count(s, x) == Cardinality({k \in 1..Len(s) : s[k] = x})

(***************************************************************************)
(* Item (item.h / item.cpp, not in src/): modelled from spec.md section 3. *)
(***************************************************************************)
isStackable(w, i) == w.item[i].id # NoType /\ ItemType[w.item[i].id].stackable
isContainer(w, i) ==
  i \in Items /\ w.item[i].id # NoType /\ ItemType[w.item[i].id].container
getParent(w, h) == IF h \in Items THEN w.item[h].parent ELSE NoHolder

RECURSIVE isRemoved(_, _)
isRemoved(w, i) ==
  LET p == w.item[i].parent
  IN  IF p = NoHolder THEN TRUE
      ELSE IF p \in Items THEN isRemoved(w, p) ELSE FALSE

equals(w, i, j) ==
  /\ j # NoItem
  /\ w.item[i].id = w.item[j].id

getDecayTo(w, i) == ItemType[w.item[i].id].decayTo

canDecay(w, i) ==
  /\ ~isRemoved(w, i)
  /\ getDecayTo(w, i) # "nodecay"
  /\ ItemType[w.item[i].id].decayTime # 0

\* Item::setID: a new type that decays restarts the item's decay
setID(w, i, newId) ==
  LET nd == ItemType[newId].decayTime
      w1 == [w EXCEPT !.item[i].id = newId]
  IN  IF nd = 0 /\ ItemType[newId].decayTo = "nodecay"
      THEN [w1 EXCEPT !.item[i].duration = 0, !.item[i].decaying = FALSE]
      ELSE IF nd > 0
      THEN [w1 EXCEPT !.item[i].duration = nd, !.item[i].decaying = FALSE]
      ELSE w1

\* an unused object, for Item::CreateItem and Item::clone to construct
NewItem(w) ==
  LET free == {k \in 1..Len(ItemSeq) : w.item[ItemSeq[k]].id = NoType}
  IN  IF free = {} THEN NoItem
      ELSE ItemSeq[CHOOSE k \in free : \A j \in free : k >= j]

CreateItem(w, i, t, c) ==
  [w EXCEPT !.item[i] =
     [id |-> t, count |-> IF ItemType[t].stackable /\ c # 0 THEN c ELSE 1,
      parent |-> NoHolder, duration |-> ItemType[t].decayTime,
      decaying |-> FALSE, refs |-> 1, age |-> 0, d0 |-> 0]]

\* Item::clone: a new object with the type, count and duration of i
clone(w, i, c) ==
  [w EXCEPT !.item[c] =
     [id |-> w.item[i].id, count |-> w.item[i].count, parent |-> NoHolder,
      duration |-> w.item[i].duration, decaying |-> FALSE, refs |-> 1,
      age |-> 0, d0 |-> 0]]

(***************************************************************************)
(* Holder protocol (Cylinder: tile.cpp, container.cpp, player.cpp, not in  *)
(* src/): modelled from spec.md section 4.1.  A tile holds any number of   *)
(* things and may redirect to another tile (a floor change); a container   *)
(* holds its type's maxItems things; the equipment slot holds one thing    *)
(* and asks for an exchange when it is occupied.  flags is TRUE for        *)
(* FLAG_NOLIMIT.                                                           *)
(***************************************************************************)
Capacity(w, h) ==
  IF h \in Slots THEN 1
  ELSE IF isContainer(w, h) THEN ItemType[w.item[h].id].maxItems ELSE 0

RECURSIVE inChain(_, _, _)
\* x is holder h or one of its ancestors
inChain(w, h, x) ==
  IF h = NoHolder THEN FALSE
  ELSE IF h = x THEN TRUE
  ELSE inChain(w, getParent(w, h), x)

getThingIndex(w, h, i) == IndexOf(w.contents[h], i)

getThing(w, h, index) ==
  IF index >= 0 /\ index < Len(w.contents[h])
  THEN w.contents[h][index + 1] ELSE NoItem

\* the first stack of h, other than i, that i can be merged into
StackMate(w, h, i) ==
  LET s == w.contents[h]
      ok == {k \in 1..Len(s) : s[k] # i /\ equals(w, i, s[k])
                               /\ w.item[s[k]].count < StackSize}
  IN  IF ok = {} THEN 0 ELSE CHOOSE k \in ok : \A j \in ok : k <= j

RECURSIVE queryDestination(_, _, _, _)
queryDestination(w, h, index, i) ==
  IF h \in Players THEN queryDestination(w, Hand[h], index, i)
  ELSE IF h \in Tiles
  THEN LET d == redirect[h]
       IN  [h |-> d, index |-> index,
            toItem |-> IF w.contents[d] = <<>> THEN NoItem
                       ELSE Head(w.contents[d])]
  ELSE
    LET idx == IF index >= Capacity(w, h) THEN INDEX_WHEREEVER ELSE index
        at  == IF idx = INDEX_WHEREEVER /\ h \notin Slots
               THEN NoItem
               ELSE getThing(w, h, IF h \in Slots THEN 0 ELSE idx)
        k   == StackMate(w, h, i)
    IN  IF at # NoItem /\ isContainer(w, at)
        THEN [h |-> at, index |-> INDEX_WHEREEVER, toItem |-> NoItem]
        ELSE IF /\ isStackable(w, i) /\ w.item[i].parent # h
                /\ ~(at # NoItem /\ equals(w, i, at)
                     /\ w.item[at].count < StackSize)
                /\ k # 0
        THEN [h |-> h, index |-> k - 1, toItem |-> w.contents[h][k]]
        ELSE [h |-> h, index |-> idx, toItem |-> at]

queryAdd(w, h, index, i, count, flags) ==
  IF h \in Tiles THEN "NOERROR"
  ELSE IF h \in Slots
  THEN LET o == getThing(w, h, 0)
       IN  IF o # NoItem /\ (~isStackable(w, o) \/ w.item[o].id # w.item[i].id)
           THEN "NEEDEXCHANGE"
           ELSE IF ItemType[w.item[i].id].heavy THEN "NOTENOUGHCAPACITY"
           ELSE "NOERROR"
  ELSE IF isContainer(w, i) /\ inChain(w, h, i) THEN "THISISIMPOSSIBLE"
  ELSE IF flags THEN "NOERROR"
  ELSE IF index = INDEX_WHEREEVER /\ Len(w.contents[h]) >= Capacity(w, h)
  THEN "CONTAINERNOTENOUGHROOM"
  ELSE "NOERROR"

RECURSIVE FreeInStacks(_, _, _, _)
\* the free room of the stacks of h, from position k on, that i can join
FreeInStacks(w, h, i, k) ==
  IF k > Len(w.contents[h]) THEN 0
  ELSE LET o == w.contents[h][k]
       IN  (IF o # i /\ equals(w, i, o) /\ w.item[o].count < StackSize
            THEN StackSize - w.item[o].count ELSE 0)
           + FreeInStacks(w, h, i, k + 1)

RECURSIVE queryMaxCount(_, _, _, _, _, _)
\* a player answers with the room of the place it would put the thing in
queryMaxCount(w, h, index, i, count, flags) ==
  IF h \in Players
  THEN queryMaxCount(w, queryDestination(w, h, INDEX_WHEREEVER, i).h, index,
                     i, count, flags)
  ELSE IF h \in Tiles \/ (flags /\ h \notin Slots)
  THEN [ret |-> "NOERROR", max |-> Max(1, count)]
  ELSE
    LET freeSlots == Max(Capacity(w, h) - Len(w.contents[h]), 0)
        o == getThing(w, h, index)
        n == IF index = INDEX_WHEREEVER THEN FreeInStacks(w, h, i, 1)
             ELSE IF o # NoItem /\ o # i /\ equals(w, i, o)
                     /\ w.item[o].count < StackSize
             THEN StackSize - w.item[o].count ELSE 0
        mx == IF isStackable(w, i) THEN freeSlots * StackSize + n
              ELSE freeSlots
    IN  IF isStackable(w, i)
        THEN [ret |-> IF mx < count THEN "CONTAINERNOTENOUGHROOM"
                      ELSE "NOERROR", max |-> mx]
        ELSE [ret |-> IF mx = 0 THEN "CONTAINERNOTENOUGHROOM"
                      ELSE "NOERROR", max |-> mx]

\* ignore is TRUE for FLAG_IGNORENOTMOVEABLE
queryRemove(w, h, i, count, ignore) ==
  IF getThingIndex(w, h, i) = -1 THEN "NOTPOSSIBLE"
  ELSE IF count = 0 \/ (isStackable(w, i) /\ count > w.item[i].count)
  THEN "NOTPOSSIBLE"
  ELSE IF ~ItemType[w.item[i].id].moveable /\ ~ignore THEN "NOTMOVEABLE"
  ELSE "NOERROR"

removeThing(w, h, i, count) ==
  LET k == getThingIndex(w, h, i)
  IN  IF k = -1 THEN w
      ELSE IF isStackable(w, i) /\ count # w.item[i].count
      THEN Log([w EXCEPT !.item[i].count = Max(0, w.item[i].count - count)],
               <<"removeThing", h, i>>)
      ELSE Log([w EXCEPT !.contents[h] = RemoveAt(@, k + 1),
                         !.item[i].parent = NoHolder],
               <<"removeThing", h, i>>)

\* addThing(thing), without an index
addThing(w, h, i) ==
  Log([w EXCEPT !.contents[h] = <<i>> \o @, !.item[i].parent = h],
      <<"addThing", h, i>>)

\* addThing(index, thing): insert at the index; INDEX_WHEREEVER and an index
\* the holder does not have put the thing in front
addThingAt(w, h, index, i) ==
  Log([w EXCEPT !.contents[h] =
         IF index >= 0 /\ index <= Len(@)
         THEN SubSeq(@, 1, index) \o <<i>> \o SubSeq(@, index + 1, Len(@))
         ELSE <<i>> \o @,
         !.item[i].parent = h],
      <<"addThing", h, i>>)

updateThing(w, h, i, newId, count) ==
  IF getThingIndex(w, h, i) = -1 THEN w
  ELSE LET w1 == setID(w, i, newId)
       IN  Log([w1 EXCEPT !.item[i].count = count], <<"updateThing", h, i>>)

replaceThing(w, h, index, new) ==
  LET old == w.contents[h][index + 1]
  IN  Log([w EXCEPT !.contents[h][index + 1] = new,
                    !.item[new].parent = h,
                    !.item[old].parent = NoHolder],
          <<"replaceThing", h, new>>)

postAddNotification(w, h, i) == Log(w, <<"postAdd", h, i>>)
postRemoveNotification(w, h, i) == Log(w, <<"postRemove", h, i>>)

\* a release that gives the reference back at once
releaseNow(w, i) == [w EXCEPT !.item[i].refs = @ - 1]

(***************************************************************************)
(* Transfer engine (game.cpp).  An operation is a sequence of steps; each  *)
(* step is an operator from the state the previous step left.              *)
(***************************************************************************)
ReleaseItem(w, i) == [w EXCEPT !.ToReleaseItems = Append(@, i)]

\* lines 1241-1247, 1347-1351, 1697-1703, 4521-4524
\* age and d0 record, for the item's enrollment, the checkDecay ticks since
\* and the duration it was enrolled with
enroll(w, i) ==
  [w EXCEPT !.item[i].refs = @ + 1, !.item[i].decaying = TRUE,
            !.item[i].age = 0, !.item[i].d0 = w.item[i].duration,
            !.toDecayItems = <<i>> \o @]

\* a bound that lets one more redirect through
depthReachedLate(n) == n > MAP_MAX_LAYERS

\* line 1075: ++floorN >= MAP_MAX_LAYERS (and line 834)
depthReached(n) == n >= MAP_MAX_LAYERS

\* the destination the loop of lines 1070-1078 stops at
Dest(h, q, flags, n, stable) ==
  [h |-> h, index |-> q.index, toItem |-> q.toItem, flags |-> flags,
   n |-> n, stable |-> stable]

RECURSIVE resolveFrom(_, _, _, _, _, _)
\* lines 1070-1078: q is what queryDestination answered for holder to;
\* n counts the redirects
resolveFrom(w, to, q, i, flags, n) ==
  IF q.h = to THEN Dest(to, q, flags, n, TRUE)
  ELSE IF depthReached(n + 1)
  THEN Dest(q.h, q, FALSE, n + 1,
            queryDestination(w, q.h, q.index, i).h = q.h)
  ELSE resolveFrom(w, q.h, queryDestination(w, q.h, q.index, i), i, FALSE,
                   n + 1)

resolveDestination(w, to, index, i, flags) ==
  resolveFrom(w, to, queryDestination(w, to, index, i), i, flags, 0)

\* what a call of internalMoveItem returns and what it did
MoveResult(w, ret, d) ==
  [w |-> w, ret |-> ret, ok |-> TRUE, committed |-> FALSE, m |-> 0,
   maxQueryCount |-> 0, retMaxCount |-> "NOERROR", redirects |-> d.n,
   stable |-> d.stable, to |-> d.h, index |-> d.index, toItem |-> d.toItem,
   moveItem |-> NoItem, updateItem |-> NoItem, exch |-> "none",
   recheck |-> "NOERROR"]

\* a merge that ignores the room the destination stack has
mergeAll(w, toItem, m) == m

\* line 1185: the units the destination stack takes
mergeUnits(w, toItem, m) == Min(StackSize - w.item[toItem].count, m)

\* a partial move that is not told apart
movedAll(w, i, count, maxQueryCount) == FALSE

\* line 1237: we could not move all
couldNotMoveAll(w, i, count, maxQueryCount) ==
  isStackable(w, i) /\ maxQueryCount < count

\* a move onto itself that is not told apart
neverSame(i, toItem) == FALSE

\* line 1081: destination is the same as the source
sameAsSource(i, toItem) == i = toItem

\* lines 1176-1178: the locals of the commit, after removeThing
moveRemove(w, from, i, m) ==
  [w |-> removeThing(w, from, i, m), itemIndex |-> getThingIndex(w, from, i),
   updateItem |-> NoItem, moveItem |-> i, n |-> 0, ok |-> TRUE]

\* lines 1184-1190
moveMerge(f, to, i, toItem, m) ==
  IF isStackable(f.w, i) /\ equals(f.w, i, toItem)
  THEN [f EXCEPT !.n = mergeUnits(f.w, toItem, m),
                 !.updateItem = toItem,
                 !.w = updateThing(f.w, to, toItem, f.w.item[toItem].id,
                                   f.w.item[toItem].count
                                     + mergeUnits(f.w, toItem, m))]
  ELSE f

\* lines 1192-1198: newCount = m - n
moveClone(f, i, m) ==
  IF ~isStackable(f.w, i) THEN f
  ELSE IF m - f.n <= 0 THEN [f EXCEPT !.moveItem = NoItem]
  ELSE IF NewItem(f.w) = NoItem THEN [f EXCEPT !.moveItem = NoItem,
                                               !.ok = FALSE]
  ELSE [f EXCEPT !.moveItem = NewItem(f.w),
                 !.w = [clone(f.w, i, NewItem(f.w)) EXCEPT
                          !.item[NewItem(f.w)].count = (m - f.n) % 256]]

\* lines 1200-1202
moveRelease(f, i) ==
  IF isStackable(f.w, i) /\ isRemoved(f.w, i)
  THEN [f EXCEPT !.w = ReleaseItem(f.w, i)] ELSE f

\* an insertion that ignores the index asked for
moveAddFront(f, d) ==
  IF f.moveItem # NoItem
  THEN [f EXCEPT !.w = addThing(f.w, d.h, f.moveItem)]
  ELSE f

\* lines 1206-1208
moveAdd(f, d) ==
  IF f.moveItem # NoItem
  THEN [f EXCEPT !.w = addThingAt(f.w, d.h, d.index, f.moveItem)]
  ELSE f

\* a commit that does not tell the source
forgetSource(f, from, i) == f

\* lines 1210-1212
moveNotifyRemove(f, from, i) ==
  IF f.itemIndex # -1
  THEN [f EXCEPT !.w = postRemoveNotification(f.w, from, i)] ELSE f

\* lines 1214-1219
moveNotifyMoved(f, to) ==
  IF f.moveItem # NoItem /\ getThingIndex(f.w, to, f.moveItem) # -1
  THEN [f EXCEPT !.w = postAddNotification(f.w, to, f.moveItem)] ELSE f

\* a commit that does not tell the destination about the stack that grew
notifyNothing(f, to) == f

\* lines 1221-1226
moveNotifyUpdated(f, to) ==
  IF f.updateItem # NoItem /\ getThingIndex(f.w, to, f.updateItem) # -1
  THEN [f EXCEPT !.w = postAddNotification(f.w, to, f.updateItem)] ELSE f

\* a move that leaves the enrollment to others
moveEnrollNone(f) == f

\* lines 1241-1247
moveEnroll(f) ==
  IF /\ f.moveItem # NoItem
     /\ f.w.item[f.moveItem].duration > 0
     /\ ~f.w.item[f.moveItem].decaying
  THEN [f EXCEPT !.w = enroll(f.w, f.moveItem)] ELSE f

\* lines 1250-1259: the item the after-move hook is told about
movedItem(f, i) ==
  IF f.updateItem # NoItem /\ ~isRemoved(f.w, f.updateItem) THEN f.updateItem
  ELSE IF f.moveItem # NoItem /\ ~isRemoved(f.w, f.moveItem) THEN f.moveItem
  ELSE IF ~isRemoved(f.w, i) THEN i ELSE NoItem

\* lines 1249-1260
moveHook(f, to, i, ev) ==
  IF ev.player /\ movedItem(f, i) # NoItem
  THEN [f EXCEPT !.w = Log(f.w, <<"onItemMoved", to, movedItem(f, i)>>)]
  ELSE f

\* what the commit returns (lines 1236-1239 and 1262)
moveReturn(f, d, toItem, qm, m, exch, ret) ==
  [MoveResult(f.w, ret, d) EXCEPT
     !.ok = f.ok, !.committed = TRUE, !.m = m, !.maxQueryCount = qm.max,
     !.retMaxCount = qm.ret, !.toItem = toItem, !.moveItem = f.moveItem,
     !.updateItem = f.updateItem, !.exch = exch]

\* lines 1236-1262: a partial move returns before the enrollment for decay
\* and the after-move hook
moveFinish(f, d, i, count, ev, toItem, qm, m, exch) ==
  IF couldNotMoveAll(f.w, i, count, qm.max)
  THEN moveReturn(f, d, toItem, qm, m, exch, qm.ret)
  ELSE moveReturn(moveHook(moveEnroll(f), d.h, i, ev), d, toItem, qm, m,
                  exch, "NOERROR")

\* lines 1175-1262: the commit of internalMoveItem
moveCommit(w, from, d, i, count, ev, toItem, qm, m, exch) ==
  moveFinish(
    moveNotifyUpdated(
      moveNotifyMoved(
        moveNotifyRemove(
          moveAdd(
            moveRelease(
              moveClone(
                moveMerge(moveRemove(w, from, i, m), d.h, i, toItem, m),
                i, m),
              i),
            d),
          from, i),
        d.h),
      d.h),
    d, i, count, ev, toItem, qm, m, exch)

\* a trade check that looks at the destination only, not at its ancestors
isTradeItem(w, to, tradeItem) == tradeItem # NoItem /\ to = tradeItem

\* lines 1160-1173: the moved item may not end up inside the trade item
inTradeItem(w, to, tradeItem) ==
  tradeItem # NoItem /\ inChain(w, to, tradeItem)

\* the minimum for every item, stackable or not
unitsMin(w, i, count, maxQueryCount) == Min(count, maxQueryCount)

\* line 1145-1150: the number of units to move
unitsToMove(w, i, count, maxQueryCount) ==
  IF isStackable(w, i) THEN Min(count, maxQueryCount) ELSE maxQueryCount

\* what a call that fails a check returns
moveFail(w, d, ret, toItem, exch, recheck) ==
  [MoveResult(w, ret, d) EXCEPT !.toItem = toItem, !.exch = exch,
                                !.recheck = recheck]

\* lines 1145-1173: qm is what queryMaxCount answered
moveRemovable(w, from, d, i, count, ev, tradeItem, toItem, exch, qm) ==
  IF queryRemove(w, from, i, unitsToMove(w, i, count, qm.max), FALSE)
       # "NOERROR"
  THEN moveFail(w, d, queryRemove(w, from, i,
                                  unitsToMove(w, i, count, qm.max), FALSE),
                toItem, exch, "NOERROR")
  ELSE IF inTradeItem(w, d.h, tradeItem)
  THEN moveFail(w, d, "NOTENOUGHROOM", toItem, exch, "NOERROR")
  ELSE moveCommit(w, from, d, i, count, ev, toItem, qm,
                  unitsToMove(w, i, count, qm.max), exch)

\* lines 1138-1143
moveCounted(w, from, d, i, count, ev, tradeItem, toItem, exch, qm) ==
  IF qm.ret # "NOERROR" /\ qm.max = 0
  THEN [moveFail(w, d, qm.ret, toItem, exch, "NOERROR") EXCEPT
          !.retMaxCount = qm.ret]
  ELSE moveRemovable(w, from, d, i, count, ev, tradeItem, toItem, exch, qm)

\* lines 1134-1173: after the exchange, the checks before the commit; ret is
\* what the last queryAdd answered
moveChecks(w, from, d, i, count, ev, tradeItem, ret, toItem, exch) ==
  IF ret # "NOERROR" THEN moveFail(w, d, ret, toItem, exch, ret)
  ELSE moveCounted(w, from, d, i, count, ev, tradeItem, toItem, exch,
                   queryMaxCount(w, d.h, d.index, i, count, d.flags))

\* lines 1113-1120: the notifications of the exchanged item
swapNotify(w, from, to, toItem, oldToItemIndex) ==
  IF oldToItemIndex # -1
  THEN IF getThingIndex(w, from, toItem) # -1
       THEN postAddNotification(postRemoveNotification(w, to, toItem), from,
                                toItem)
       ELSE postRemoveNotification(w, to, toItem)
  ELSE IF getThingIndex(w, from, toItem) # -1
       THEN postAddNotification(w, from, toItem)
       ELSE w

\* lines 1109-1120: the exchanged item goes to the source holder
swap(w, from, to, toItem) ==
  swapNotify(addThing(removeThing(w, to, toItem, w.item[toItem].count), from,
                      toItem),
             from, to, toItem, getThingIndex(w, to, toItem))

\* lines 1124-1127
swapHook(w, from, toItem, ev) ==
  IF ev.player /\ ~isRemoved(w, toItem)
  THEN Log(w, <<"onItemMoved", from, toItem>>) ELSE w

\* lines 1122-1129: x is the state after the swap; the queryAdd is asked
\* again and toItem is null from here on
swapped(x, from, d, i, count, ev, tradeItem) ==
  moveChecks(swapHook(x, from, d.toItem, ev), from, d, i, count, ev,
             tradeItem, queryAdd(x, d.h, d.index, i, count, d.flags), NoItem,
             "done")

\* lines 1099-1130: w is the state after the hook of the exchanged item
exchangeCounted(w, from, d, i, count, ev, tradeItem, qx) ==
  IF qx.ret # "NOERROR" /\ qx.max = 0
  THEN moveFail(w, d, qx.ret, d.toItem, "maxCountFailed", "NOERROR")
  ELSE IF queryRemove(w, d.h, d.toItem, w.item[d.toItem].count, FALSE)
            = "NOERROR"
  THEN swapped(swap(w, from, d.h, d.toItem), from, d, i, count, ev,
               tradeItem)
  ELSE moveChecks(w, from, d, i, count, ev, tradeItem, "NOERROR", d.toItem,
                  "removeFailed")

\* lines 1091-1106
exchangeHooked(w, from, d, i, count, ev, tradeItem) ==
  IF ev.player /\ ev.veto2
  THEN moveFail(w, d, "NOTPOSSIBLE", d.toItem, "vetoed", "NOERROR")
  ELSE exchangeCounted(w, from, d, i, count, ev, tradeItem,
                       queryMaxCount(w, from, INDEX_WHEREEVER, d.toItem,
                                     w.item[d.toItem].count, FALSE))

\* lines 1087-1132: the destination asks for an exchange; ret1 is what the
\* source holder's queryAdd answers for the colliding item
exchange(w, from, d, i, count, ev, tradeItem, ret1) ==
  IF ret1 # "NOERROR"
  THEN moveChecks(w, from, d, i, count, ev, tradeItem, ret1, d.toItem,
                  "sourceAddFailed")
  ELSE exchangeHooked(IF ev.player
                      THEN Log(w, <<"onMoveItem", from, d.toItem>>) ELSE w,
                      from, d, i, count, ev, tradeItem)

\* lines 1065-1132: d is the resolved destination
moveResolved(w, from, d, i, count, ev, tradeItem) ==
  IF sameAsSource(i, d.toItem) THEN MoveResult(w, "NOERROR", d)
  ELSE IF queryAdd(w, d.h, d.index, i, count, d.flags) = "NEEDEXCHANGE"
  THEN exchange(w, from, d, i, count, ev, tradeItem,
                queryAdd(w, from, getThingIndex(w, from, i), d.toItem,
                         w.item[d.toItem].count, FALSE))
  ELSE moveChecks(w, from, d, i, count, ev, tradeItem,
                  queryAdd(w, d.h, d.index, i, count, d.flags), d.toItem,
                  "none")

\* lines 1056-1063: the before-move hook of a player's move
moveHooked(w, from, to, index, i, count, flags, ev, tradeItem) ==
  IF ev.player /\ ev.veto
  THEN MoveResult(w, "NOTPOSSIBLE",
                  [h |-> to, index |-> index, toItem |-> NoItem,
                   flags |-> flags, n |-> 0, stable |-> TRUE])
  ELSE moveResolved(w, from, resolveDestination(w, to, index, i, flags), i,
                    count, ev, tradeItem)

\* lines 1051-1263
internalMoveItem(w, from, to, index, i, count, flags, ev, tradeItem) ==
  moveHooked(IF ev.player THEN Log(w, <<"onMoveItem", from, i>>) ELSE w,
             from, to, index, i, count, flags, ev, tradeItem)

\* what internalAddItem returns: the outcome and the remainderCount out-value
AddResult(w, ret, rem, ok) ==
  [w |-> w, ret |-> ret, remainderCount |-> rem, ok |-> ok]

\* lines 1323-1328, 1339-1344: postAddNotification when the holder has y
notifyAdded(w, to, y) ==
  IF getThingIndex(w, to, y) # -1 THEN postAddNotification(w, to, y) ELSE w

\* lines 1315-1319: sub is what the recursive call for the remainder returned
addedRemainder(sub, fresh, count) ==
  IF sub.ret # "NOERROR"
  THEN AddResult(ReleaseItem(sub.w, fresh), "NOERROR", count, sub.ok)
  ELSE AddResult(sub.w, "NOERROR", 0, sub.ok)

\* lines 1347-1351: the item is enrolled whatever its decaying state is
addEnroll(r, i) ==
  IF r.w.item[i].duration > 0 THEN [r EXCEPT !.w = enroll(r.w, i)] ELSE r

RECURSIVE internalAddItem(_, _, _, _, _, _)

\* lines 1310-1336: w is the state after toItem took its n units and count
\* is m - n
addMerged(w, dest, to, index, i, toItem, count, flags) ==
  IF count > 0
  THEN IF w.item[i].count # count
       THEN IF NewItem(w) = NoItem THEN AddResult(w, "NOERROR", 0, FALSE)
            ELSE addedRemainder(
                   internalAddItem(
                     [clone(w, i, NewItem(w)) EXCEPT
                        !.item[NewItem(w)].count = count % 256],
                     dest, NewItem(w), INDEX_WHEREEVER, flags, FALSE),
                   NewItem(w), count)
       ELSE AddResult(notifyAdded(addThingAt(w, to, index, i), to, i),
                      "NOERROR", 0, TRUE)
  ELSE AddResult(notifyAdded(ReleaseItem(w, i), to, toItem), "NOERROR", 0,
                 TRUE)

\* a merge that forgets what the stack could not take
addMergeOnly(w, dest, to, index, i, toItem, m, flags) ==
  addMerged(updateThing(w, to, toItem, w.item[toItem].id,
                        w.item[toItem].count
                          + Min(StackSize - w.item[toItem].count, m)),
            dest, to, index, i, toItem, 0, flags)

\* lines 1304-1308: m and n
addMerge(w, dest, to, index, i, toItem, m, flags) ==
  addMerged(updateThing(w, to, toItem, w.item[toItem].id,
                        w.item[toItem].count
                          + Min(StackSize - w.item[toItem].count, m)),
            dest, to, index, i, toItem,
            m - Min(StackSize - w.item[toItem].count, m), flags)

\* lines 1303-1345: q is the resolved destination, qm the maximum count
addPlace(w, dest, q, i, qm, flags) ==
  IF isStackable(w, i) /\ equals(w, i, q.toItem)
  THEN addMerge(w, dest, q.h, q.index, i, q.toItem,
                Min(w.item[i].count, qm.max), flags)
  ELSE AddResult(notifyAdded(addThingAt(w, q.h, q.index, i), q.h, i),
                 "NOERROR", 0, TRUE)

\* an addItem that does not look at its test flag
addUntested(w, dest, q, i, flags, test, qm) ==
  IF queryAdd(w, q.h, q.index, i, w.item[i].count, flags) # "NOERROR"
  THEN AddResult(w, queryAdd(w, q.h, q.index, i, w.item[i].count, flags), 0,
                 TRUE)
  ELSE IF qm.ret # "NOERROR" THEN AddResult(w, qm.ret, 0, TRUE)
  ELSE addEnroll(addPlace(w, dest, q, i, qm, flags), i)

\* lines 1283-1353
addResolved(w, dest, q, i, flags, test, qm) ==
  IF queryAdd(w, q.h, q.index, i, w.item[i].count, flags) # "NOERROR"
  THEN AddResult(w, queryAdd(w, q.h, q.index, i, w.item[i].count, flags), 0,
                 TRUE)
  ELSE IF qm.ret # "NOERROR" THEN AddResult(w, qm.ret, 0, TRUE)
  ELSE IF test THEN AddResult(w, "NOERROR", 0, TRUE)
  ELSE addEnroll(addPlace(w, dest, q, i, qm, flags), i)

\* lines 1272-1354: queryDestination is applied once; queryMaxCount is asked
\* of the holder the caller named
internalAddItem(w, dest, i, index, flags, test) ==
  addResolved(w, dest, queryDestination(w, dest, index, i), i, flags, test,
              queryMaxCount(w, dest, INDEX_WHEREEVER, i, w.item[i].count,
                            flags))

\* line 1386: decayItems->remove(item) is decayItems[0].remove(item)
removeFromDecay(w, i) == [w EXCEPT !.decayItems[0] = RemoveAll(@, i)]

\* lines 1382-1388: x is the state after removeThing
removed(x, i) ==
  IF ~isRemoved(x, i) THEN x
  ELSE IF canDecay(x, i) THEN ReleaseItem(removeFromDecay(x, i), i)
  ELSE ReleaseItem(x, i)

\* lines 1356-1395; cnt = -1 removes the whole item
removeCount(w, i, cnt) == IF cnt = -1 THEN w.item[i].count ELSE cnt

internalRemoveItem(w, i, cnt, test) ==
  IF w.item[i].parent = NoHolder THEN [w |-> w, ret |-> "NOTPOSSIBLE"]
  ELSE IF queryRemove(w, w.item[i].parent, i, removeCount(w, i, cnt), TRUE)
            # "NOERROR"
  THEN [w |-> w,
        ret |-> queryRemove(w, w.item[i].parent, i, removeCount(w, i, cnt),
                            TRUE)]
  ELSE IF test THEN [w |-> w, ret |-> "NOERROR"]
  ELSE [w |-> postRemoveNotification(
                removed(removeThing(w, w.item[i].parent, i,
                                    removeCount(w, i, cnt)), i),
                w.item[i].parent, i),
        ret |-> "NOERROR"]

(***************************************************************************)
(* Money.  Item::getWorth and Item::items.currencyItems are not in src/:   *)
(* a currency item is worth its count times the worth of its type, and     *)
(* the currencies are listed from the highest worth to the lowest.         *)
(***************************************************************************)
Worth ==
  [t \in TypeIds |-> CASE t = "coin" -> 1 [] t = "gem" -> 50 [] OTHER -> 0]
currencyItems == <<"gem", "coin">>
getWorth(w, i) == Worth[w.item[i].id] * w.item[i].count

\* Cylinder::getTile: the tile a holder lies on
RECURSIVE getTileOf(_, _)
getTileOf(w, h) ==
  IF h \in Tiles THEN h
  ELSE IF h \in Items THEN getTileOf(w, w.item[h].parent)
  ELSE NoHolder

\* what addMoney and removeMoney hand on: ok is FALSE when the model has no
\* object left for an item to create
MoneyResult(w, ret, ok) == [w |-> w, ret |-> ret, ok |-> ok]

\* lines 1562-1567: the coins that the holder refuses go to its tile
addCoinsTo(w, h, i, flags) ==
  IF internalAddItem(w, h, i, INDEX_WHEREEVER, flags, FALSE).ret = "NOERROR"
  THEN internalAddItem(w, h, i, INDEX_WHEREEVER, flags, FALSE)
  ELSE IF getTileOf(w, h) = NoHolder THEN AddResult(w, "NOTPOSSIBLE", 0, TRUE)
  ELSE internalAddItem(w, getTileOf(w, h), i, INDEX_WHEREEVER, TRUE, FALSE)

\* lines 1559-1570: one item for every 100 coins of a currency
RECURSIVE addCoins(_, _, _, _, _, _)
addCoins(w, h, t, currencyCoins, flags, ok) ==
  IF currencyCoins <= 0 THEN MoneyResult(w, TRUE, ok)
  ELSE IF NewItem(w) = NoItem THEN MoneyResult(w, TRUE, FALSE)
  ELSE addCoins(addCoinsTo(CreateItem(w, NewItem(w), t,
                                      Min(100, currencyCoins)),
                           h, NewItem(w), flags).w,
                h, t, currencyCoins - Min(100, currencyCoins), flags,
                ok /\ addCoinsTo(CreateItem(w, NewItem(w), t,
                                            Min(100, currencyCoins)),
                                 h, NewItem(w), flags).ok)

\* lines 1550-1571: k is the place in currencyItems, r the state so far
RECURSIVE addCurrencies(_, _, _, _, _)
addCurrencies(r, h, k, money, flags) ==
  IF k > Len(currencyItems) THEN r
  ELSE IF money \div Worth[currencyItems[k]] <= 0
  THEN addCurrencies(r, h, k + 1, money, flags)
  ELSE addCurrencies(addCoins(r.w, h, currencyItems[k],
                              money \div Worth[currencyItems[k]], flags,
                              r.ok),
                     h, k + 1, money % Worth[currencyItems[k]], flags)

\* lines 1544-1572
addMoney(w, h, money, flags) ==
  IF money = 0 THEN MoneyResult(w, TRUE, TRUE)
  ELSE addCurrencies(MoneyResult(w, TRUE, TRUE), h, 1, money, flags)

\* std::multimap::emplace: after the entries of the same or a lower worth
MoneyEntry(w, i) == [first |-> getWorth(w, i), second |-> i]
emplace(moneyMap, e) ==
  LET k == Cardinality({j \in 1..Len(moneyMap) : moneyMap[j].first <= e.first})
  IN  SubSeq(moneyMap, 1, k) \o <<e>> \o SubSeq(moneyMap, k + 1, Len(moneyMap))

\* lines 1481-1499, 1504-1515: the things of one holder, in their order
RECURSIVE mapMoney(_, _, _, _)
mapMoney(w, things, containers, moneyMap) ==
  IF things = <<>> THEN [containers |-> containers, moneyMap |-> moneyMap]
  ELSE IF isContainer(w, Head(things))
  THEN mapMoney(w, Tail(things), Append(containers, Head(things)), moneyMap)
  ELSE IF getWorth(w, Head(things)) # 0
  THEN mapMoney(w, Tail(things), containers,
                emplace(moneyMap, MoneyEntry(w, Head(things))))
  ELSE mapMoney(w, Tail(things), containers, moneyMap)

\* lines 1501-1516: the containers found so far, one after the other
RECURSIVE mapContainers(_, _, _)
mapContainers(w, k, m) ==
  IF k > Len(m.containers) THEN m.moneyMap
  ELSE mapContainers(w, k + 1,
                     mapMoney(w, w.contents[m.containers[k]], m.containers,
                              m.moneyMap))

\* lines 1474-1516
getMoneyMap(w, h) ==
  mapContainers(w, 1, mapMoney(w, w.contents[h], <<>>, <<>>))

RECURSIVE moneyCount(_)
moneyCount(moneyMap) ==
  IF moneyMap = <<>> THEN 0
  ELSE Head(moneyMap).first + moneyCount(Tail(moneyMap))

\* change that is never given
removeNoChange(w, h, e, money, flags, worth, count) ==
  MoneyResult(internalRemoveItem(w, e.second, count, FALSE).w, TRUE, TRUE)

\* lines 1526-1531: the item is worth more than what is left to pay
removeChange(w, h, e, money, flags, worth, count) ==
  MoneyResult(
    internalRemoveItem(addMoney(w, h, worth * count - money, flags).w,
                       e.second, count, FALSE).w,
    TRUE, addMoney(w, h, worth * count - money, flags).ok)

\* lines 1522-1538
RECURSIVE removeEntries(_, _, _, _, _)
removeEntries(w, h, moneyMap, money, flags) ==
  IF moneyMap = <<>> THEN MoneyResult(w, TRUE, TRUE)
  ELSE IF Head(moneyMap).first < money
  THEN removeEntries(internalRemoveItem(w, Head(moneyMap).second, -1,
                                        FALSE).w,
                     h, Tail(moneyMap), money - Head(moneyMap).first, flags)
  ELSE IF Head(moneyMap).first > money
  THEN removeChange(w, h, Head(moneyMap), money, flags,
                    Head(moneyMap).first
                      \div w.item[Head(moneyMap).second].count,
                    (money + (Head(moneyMap).first
                                \div w.item[Head(moneyMap).second].count)
                       - 1)
                      \div (Head(moneyMap).first
                              \div w.item[Head(moneyMap).second].count))
  ELSE MoneyResult(internalRemoveItem(w, Head(moneyMap).second, -1, FALSE).w,
                   TRUE, TRUE)

\* lines 1465-1542
removeMoney(w, h, money, flags) ==
  IF h = NoHolder THEN MoneyResult(w, FALSE, TRUE)
  ELSE IF money = 0 THEN MoneyResult(w, TRUE, TRUE)
  ELSE IF moneyCount(getMoneyMap(w, h)) < money
  THEN MoneyResult(w, FALSE, TRUE)
  ELSE removeEntries(w, h, getMoneyMap(w, h), money, flags)

\* what transformItem returns: the item (NoItem for null)
TransformResult(w, r, ok) == [w |-> w, item |-> r, ok |-> ok]

\* lines 1609-1620: x is the state after setID, setSubType and addThing
onTopAdded(x, i) ==
  IF x.item[i].parent = NoHolder
  THEN TransformResult(ReleaseItem(x, i), NoItem, TRUE)
  ELSE TransformResult(postAddNotification(x, x.item[i].parent, i), i, TRUE)

\* lines 1606-1609
onTopRetyped(x, i, newCount) ==
  IF newCount # -1 THEN [x EXCEPT !.item[i].count = newCount] ELSE x

\* lines 1601-1621: the always-on-top flag changes
transformOnTop(w, cylinder, i, newId, newCount) ==
  onTopAdded(
    addThing(
      onTopRetyped(
        setID(postRemoveNotification(
                removeThing(w, cylinder, i, w.item[i].count), cylinder, i),
              i, newId),
        i, newCount),
      cylinder, i),
    i)

\* lines 1655-1675: same type, the id and the count change in place
transformInPlace(w, cylinder, i, newId, newCount) ==
  TransformResult(
    postAddNotification(
      updateThing(postRemoveNotification(w, cylinder, i), cylinder, i, newId,
                  IF newCount # -1 /\ ItemType[newId].stackable
                  THEN newCount ELSE w.item[i].count),
      cylinder, i),
    i, TRUE)

\* lines 1697-1703
replaceEnroll(x, new) ==
  IF x.item[new].duration > 0 /\ ~x.item[new].decaying
  THEN TransformResult(enroll(x, new), new, TRUE)
  ELSE TransformResult(x, new, TRUE)

\* lines 1690-1695: the new item is announced before the old one is taken
\* away
replaced(x, cylinder, i, new) ==
  ReleaseItem(
    postRemoveNotification([postAddNotification(x, cylinder, new) EXCEPT
                              !.item[i].parent = NoHolder],
                           cylinder, i),
    i)

\* a replacement that puts the new item in the first place of the holder
transformReplaceFirst(w, cylinder, itemIndex, i, newId, newCount) ==
  IF NewItem(w) = NoItem THEN TransformResult(w, NoItem, FALSE)
  ELSE replaceEnroll(
         replaced(
           replaceThing(CreateItem(w, NewItem(w), newId,
                                   IF newCount = -1 THEN 1 ELSE newCount),
                        cylinder, 0, NewItem(w)),
           cylinder, i, NewItem(w)),
         NewItem(w))

\* lines 1678-1705: the item is replaced by a new one at its index
transformReplace(w, cylinder, itemIndex, i, newId, newCount) ==
  IF NewItem(w) = NoItem THEN TransformResult(w, NoItem, FALSE)
  ELSE replaceEnroll(
         replaced(
           replaceThing(CreateItem(w, NewItem(w), newId,
                                   IF newCount = -1 THEN 1 ELSE newCount),
                        cylinder, itemIndex, NewItem(w)),
           cylinder, i, NewItem(w)),
         NewItem(w))

\* lines 1574-1706.  newId "invalid" is an id Item::items has no type for;
\* no type of the model has charges, so lines 1629-1654 are not reached.
transformItem(w, i, newId, newCount) ==
  IF w.item[i].id = newId
     /\ (newCount = -1 \/ (newCount = w.item[i].count /\ newCount # 0))
  THEN TransformResult(w, i, TRUE)
  ELSE IF w.item[i].parent = NoHolder THEN TransformResult(w, NoItem, TRUE)
  ELSE IF getThingIndex(w, w.item[i].parent, i) = -1
  THEN TransformResult(w, i, TRUE)
  ELSE IF newId \notin TypeIds THEN TransformResult(w, i, TRUE)
  ELSE IF ItemType[w.item[i].id].alwaysOnTop # ItemType[newId].alwaysOnTop
  THEN transformOnTop(w, w.item[i].parent, i, newId, newCount)
  ELSE IF ItemType[w.item[i].id].type = ItemType[newId].type
  THEN IF newCount = 0 /\ isStackable(w, i)
       THEN TransformResult(internalRemoveItem(w, i, -1, FALSE).w, NoItem,
                            TRUE)
       ELSE transformInPlace(w, w.item[i].parent, i, newId, newCount)
  ELSE transformReplace(w, w.item[i].parent,
                        getThingIndex(w, w.item[i].parent, i), i, newId,
                        newCount)

RECURSIVE startDecay(_, _)

\* line 4533: t is what transformItem returned
decayStarted(t) ==
  [w |-> startDecay(t.w, t.item).w, ok |-> t.ok /\ startDecay(t.w, t.item).ok]

\* lines 4530-4542
internalDecayItem(w, i) ==
  IF getDecayTo(w, i) \in TypeIds
  THEN decayStarted(transformItem(w, i, getDecayTo(w, i), -1))
  ELSE [w |-> internalRemoveItem(w, i, -1, FALSE).w, ok |-> TRUE]

\* lines 4510-4528; the result carries ok as transformItem's does
startDecay(w, i) ==
  IF i = NoItem THEN [w |-> w, ok |-> TRUE]
  ELSE IF ~canDecay(w, i) THEN [w |-> w, ok |-> TRUE]
  ELSE IF w.item[i].decaying THEN [w |-> w, ok |-> TRUE]
  ELSE IF w.item[i].duration > 0 THEN [w |-> enroll(w, i), ok |-> TRUE]
  ELSE internalDecayItem(w, i)

(***************************************************************************)
(* Decay scheduler (game.cpp).                                             *)
(***************************************************************************)
Rotation == EVENT_DECAYINTERVAL * EVENT_DECAY_BUCKETS

\* line 4572-4573: the bucket of an item with less than a rotation left
newBucketOf(bucket, duration) ==
  (bucket + ((duration + EVENT_DECAYINTERVAL \div 2) \div 1000))
    % EVENT_DECAY_BUCKETS

\* lines 4661-4666: the bucket cleanup() puts a pending item into
cleanupBucketOf(lb, dur) ==
  IF dur >= Rotation THEN lb
  ELSE (lb + 1 + dur \div 1000) % EVENT_DECAY_BUCKETS

\* the decay of item i by the running tick, for the record of the tick
noteDecay(w, i) == Log(w, <<"decay", i, w.item[i].age, w.item[i].d0>>)

\* decayItems[bucket].remove(*it): every entry of the item leaves the bucket
eraseEvery(w, bucket, k) ==
  [w EXCEPT !.decayItems[bucket] = RemoveAll(@, w.decayItems[bucket][k])]

\* decayItems[bucket].erase(it)
erase(w, bucket, k) == [w EXCEPT !.decayItems[bucket] = RemoveAt(@, k)]

\* lines 4560-4564
decreaseDuration(w, i) ==
  [w EXCEPT !.item[i].duration = @ - Min(Rotation, @)]

\* a decay that keeps the scheduler's reference
decayUnreleased(w, ok, bucket, k, i) ==
  [w |-> internalDecayItem(noteDecay(erase(w, bucket, k), i), i).w,
   ok |-> ok /\ internalDecayItem(noteDecay(erase(w, bucket, k), i), i).ok,
   k |-> k]

\* lines 4566-4568, 4575-4576: internalDecayItem(item); ReleaseItem(item)
decayNow(w, ok, bucket, k, i) ==
  [w |-> ReleaseItem(internalDecayItem(noteDecay(erase(w, bucket, k), i),
                                       i).w, i),
   ok |-> ok /\ internalDecayItem(noteDecay(erase(w, bucket, k), i), i).ok,
   k |-> k]

\* lines 4566-4582: w is the state after decreaseDuration
decayAged(w, ok, bucket, k, i) ==
  IF w.item[i].duration <= 0 THEN decayNow(w, ok, bucket, k, i)
  ELSE IF w.item[i].duration < Rotation
  THEN IF newBucketOf(bucket, w.item[i].duration) = bucket
       THEN decayNow(w, ok, bucket, k, i)
       ELSE [w |-> [erase(w, bucket, k) EXCEPT
                      !.decayItems[newBucketOf(bucket, w.item[i].duration)] =
                        Append(@, i)],
             ok |-> ok, k |-> k]
  ELSE [w |-> w, ok |-> ok, k |-> k + 1]

\* lines 4552-4583: one turn of the loop, for item i at position k
decayStep(w, ok, bucket, k, i) ==
  IF ~canDecay(w, i)
  THEN [w |-> ReleaseItem([erase(w, bucket, k) EXCEPT
                             !.item[i].decaying = FALSE], i),
        ok |-> ok, k |-> k]
  ELSE decayAged(decreaseDuration(w, i), ok, bucket, k, i)

RECURSIVE decayLoop(_, _)
\* lines 4550-4583: s.k is the iterator's position in decayItems[bucket]
decayLoop(s, bucket) ==
  IF s.k > Len(s.w.decayItems[bucket]) THEN s
  ELSE decayLoop(decayStep(s.w, s.ok, bucket, s.k,
                           s.w.decayItems[bucket][s.k]), bucket)

RECURSIVE destroy(_, _)
RECURSIVE freeKids(_, _, _)
\* the Container destructor: the children lose their parent and a reference
freeKids(x, kids, k) ==
  IF k > Len(kids) THEN x
  ELSE freeKids(destroy([x EXCEPT !.item[kids[k]].parent = NoHolder],
                        kids[k]), kids, k + 1)

\* decrementReferenceCounter: the object is deleted when the count reaches 0
destroy(w, i) ==
  IF w.item[i].id = NoType THEN w
  ELSE IF w.item[i].refs > 1 THEN [w EXCEPT !.item[i].refs = @ - 1]
  ELSE freeKids([w EXCEPT !.item[i] = FreeItem, !.contents[i] = <<>>],
                w.contents[i], 1)

RECURSIVE releaseAll(_, _)
\* lines 4655-4658
releaseAll(w, k) ==
  IF k > Len(w.ToReleaseItems) THEN [w EXCEPT !.ToReleaseItems = <<>>]
  ELSE releaseAll(destroy(w, w.ToReleaseItems[k]), k + 1)

RECURSIVE distribute(_, _, _)
\* lines 4660-4668
distribute(w, lb, k) ==
  IF k > Len(w.toDecayItems) THEN [w EXCEPT !.toDecayItems = <<>>]
  ELSE distribute([w EXCEPT
                     !.decayItems[cleanupBucketOf(
                         lb, w.item[w.toDecayItems[k]].duration)] =
                       Append(@, w.toDecayItems[k])],
                  lb, k + 1)

\* lines 4647-4669, the items' part
cleanup(w, lb) == distribute(releaseAll(w, 1), lb, 1)

\* every enrolled item has seen one more tick
tick(w) ==
  [w EXCEPT !.item = [i \in Items |->
     IF w.item[i].id # NoType /\ w.item[i].decaying
     THEN [w.item[i] EXCEPT !.age = @ + 1] ELSE w.item[i]]]

\* lines 4585-4586: s is what the loop left
checkDecayDone(s, bucket) ==
  [w |-> cleanup(s.w, bucket), lastBucket |-> bucket, ok |-> s.ok]

\* lines 4544-4587
checkDecay(w, lb) ==
  checkDecayDone(decayLoop([w |-> tick(w), ok |-> TRUE, k |-> 1],
                           (lb + 1) % EVENT_DECAY_BUCKETS),
                 (lb + 1) % EVENT_DECAY_BUCKETS)

(***************************************************************************)
(* The state machine.  Every action is one call of an operation of         *)
(* game.cpp, with its inputs drawn from small sets.                        *)
(***************************************************************************)
Buckets == 0..(EVENT_DECAY_BUCKETS - 1)

\* the floor changes of the map: a chain T1 -> T2 -> T3 and a cycle T1 <-> T2
RedirectChain == [t \in Tiles |-> IF t = "T1" THEN "T2" ELSE "T3"]
RedirectCycle ==
  [t \in Tiles |-> IF t = "T1" THEN "T2" ELSE IF t = "T2" THEN "T1" ELSE "T3"]

\* The items callers construct.  A kind is a type, a count and a duration
\* (0: the type's own decay time).
Kind(t, c, d) == [t |-> t, c |-> c, d |-> d]
NoKind == Kind(NoType, 0, 0)
StackCatalogue ==
  [i \in Items |-> CASE i = "i1" -> Kind("coin", 60, 0)
                     [] i = "i2" -> Kind("coin", 60, 0)
                     [] i = "i3" -> Kind("bag", 1, 0)
                     [] OTHER -> NoKind]
ExchangeCatalogue ==
  [i \in Items |-> CASE i = "i1" -> Kind("anvil", 1, 0)
                     [] i = "i2" -> Kind("sword", 1, 0)
                     [] i = "i3" -> Kind("chest", 1, 0)
                     [] OTHER -> NoKind]
DestCatalogue ==
  [i \in Items |-> CASE i = "i1" -> Kind("sword", 1, 0)
                     [] i = "i2" -> Kind("gem", 1, 0)
                     [] OTHER -> NoKind]
\* the durations callers set: a whole rotation, and durations that are not
\* multiples of the tick length
Durations ==
  {k * ((3 * EVENT_DECAYINTERVAL) \div 2) : k \in 1..MaxDurSteps}
    \cup {Rotation}
DecayCatalogue(t, d) ==
  [i \in Items |-> IF i = "i1" THEN Kind(t, 1, d) ELSE NoKind]

(***************************************************************************)
(* Creatures (creature.h, not in src/): the fields game.cpp reads and      *)
(* writes.  parent is the holder pointer, onTile the tile whose creature   *)
(* list has the creature; refs starts at the reference of the owner who    *)
(* constructed the object.                                                 *)
(***************************************************************************)
CreatureSeq == <<"c1", "c2", "c3">>
Creatures == {CreatureSeq[k] : k \in 1..Len(CreatureSeq)}
NoCreature == "nocreature"
CreatureBuckets == 0..(EVENT_CREATURECOUNT - 1)
Position(x, y, z) == [x |-> x, y |-> y, z |-> z]
NoPosition == Position(0, 0, 0)
FreshCreature ==
  [parent |-> NoHolder, onTile |-> NoHolder, removed |-> FALSE, id |-> 0,
   listed |-> FALSE, refs |-> 1, inCheckCreaturesVector |-> FALSE,
   creatureCheck |-> FALSE, lastPosition |-> NoPosition,
   direction |-> "SOUTH"]

CreatureWorld ==
  [creature |-> creature, checkCreatureLists |-> checkCreatureLists,
   ToReleaseCreatures |-> ToReleaseCreatures, log |-> <<>>]

CommitCreatures(cw) ==
  /\ creature' = cw.creature
  /\ checkCreatureLists' = cw.checkCreatureLists
  /\ ToReleaseCreatures' = cw.ToReleaseCreatures

\* line 4671
ReleaseCreature(cw, c) == [cw EXCEPT !.ToReleaseCreatures = Append(@, c)]

\* lines 4650-4653: every entry of the list gives one reference back
cleanupCreatures(cw) ==
  [cw EXCEPT
     !.creature = [c \in Creatures |->
        [cw.creature[c] EXCEPT !.refs = @ - Count(cw.ToReleaseCreatures, c)]],
     !.ToReleaseCreatures = <<>>]

\* a scheduler task: the continuation and the values its closure captured
Task(f, playerID, creatureID, fromPos, spriteId, toPos, count) ==
  [f |-> f, playerID |-> playerID, creatureID |-> creatureID,
   fromPos |-> fromPos, spriteId |-> spriteId, toPos |-> toPos,
   count |-> count]
NoTask == Task("none", 0, 0, NoPosition, NoType, NoPosition, 0)
\* Player::setNextActionTask and setNextWalkActionTask keep one task each
NoTasks == [action |-> NoTask, walk |-> NoTask]

\* what the last call was: the operation, its item and what it returned
Call(op, i, ret) == [op |-> op, item |-> i, ret |-> ret]
NoCall == Call("none", NoItem, "NOERROR")

InitWith(cat, red) ==
  /\ item = [i \in Items |-> FreeItem]
  /\ contents = [h \in Holders |-> <<>>]
  /\ redirect = red
  /\ decayItems = [b \in Buckets |-> <<>>]
  /\ toDecayItems = <<>>
  /\ lastBucket = 0
  /\ ToReleaseItems = <<>>
  /\ creatureTile = "T3"
  /\ scheduler = NoTasks
  /\ player = [p \in Players |-> NoTrade]
  /\ tradeItems = [i \in Items |-> 0]
  /\ creature = [c \in Creatures |-> FreshCreature]
  /\ checkCreatureLists = [b \in CreatureBuckets |-> <<>>]
  /\ ToReleaseCreatures = <<>>
  /\ log = <<>>
  /\ last = NoCall
  /\ catalogue = cat

Commit(w) ==
  /\ item' = w.item
  /\ contents' = w.contents
  /\ decayItems' = w.decayItems
  /\ toDecayItems' = w.toDecayItems
  /\ ToReleaseItems' = w.ToReleaseItems
  /\ log' = w.log

Placed(i) == item[i].id # NoType /\ ~isRemoved(World, i)
\* the holders a caller can name: tiles, the slot, containers in the world
LiveHolders ==
  Tiles \cup Slots \cup {i \in Items : Placed(i) /\ isContainer(World, i)}

\* the dispatcher runs cleanup() at the end of a tick: at most MaxToRelease
\* released objects wait for it
Quiet == Len(ToReleaseItems) < MaxToRelease

\* the arguments of a call of internalMoveItem
Args(i, h, index, count, flags, ev, tradeItem) ==
  [i |-> i, h |-> h, index |-> index, count |-> count, flags |-> flags,
   ev |-> ev, tradeItem |-> tradeItem]

\* internalMoveItem as game.cpp calls it: from is the item's parent
moveOf(c) ==
  internalMoveItem(World, item[c.i].parent, c.h, c.index, c.i, c.count,
                   c.flags, c.ev, c.tradeItem)

\* Item::CreateItem, setDuration and internalAddItem; a caller releases the
\* item it could not add (lines 1403-1407)
addOf(new, h, index, flags) ==
  LET k == catalogue[new]
      w0 == CreateItem(World, new, k.t, k.c)
      w1 == IF k.d > 0 THEN [w0 EXCEPT !.item[new].duration = k.d] ELSE w0
  IN  internalAddItem(w1, h, new, index, flags, FALSE)

\* the world with the object a caller constructed and has not added yet
fresh(new) ==
  LET k == catalogue[new]
      w0 == CreateItem(World, new, k.t, k.c)
  IN  IF k.d > 0 THEN [w0 EXCEPT !.item[new].duration = k.d] ELSE w0

\* internalAddItem with test = true, for an item in the world (the trade
\* pre-check of lines 2792-2793): whether holder h would take it
TestAddItem(i, h, index, flags) ==
  /\ Placed(i)
  /\ h \in LiveHolders
  /\ LET r == internalAddItem(World, h, i, index, flags, TRUE)
     IN  /\ r.ok
         /\ Commit(r.w)
         /\ last' = Call("testAddItem", i, r.ret)
  /\ UNCHANGED <<redirect, scheduler, tradeVars, lastBucket, creatureTile, creatureVars, catalogue>>

\* internalRemoveItem with test = true
TestRemoveItem(i, count) ==
  /\ Placed(i)
  /\ LET r == internalRemoveItem(World, i, count, TRUE)
     IN  /\ Commit(r.w)
         /\ last' = Call("testRemoveItem", i, r.ret)
  /\ UNCHANGED <<redirect, scheduler, tradeVars, lastBucket, creatureTile, creatureVars, catalogue>>

AddItem(new, h, index, flags) ==
  /\ Quiet
  /\ item[new].id = NoType
  /\ catalogue[new] # NoKind
  /\ h \in LiveHolders
  /\ LET r == addOf(new, h, index, flags)
     IN  /\ r.ok
         /\ Commit(IF r.ret # "NOERROR" THEN ReleaseItem(r.w, new) ELSE r.w)
         /\ last' = Call("addItem", new, r.ret)
  /\ catalogue' = [catalogue EXCEPT ![new] = NoKind]
  /\ UNCHANGED <<redirect, scheduler, tradeVars, lastBucket, creatureTile, creatureVars>>

MoveItem(c) ==
  /\ Quiet
  /\ Placed(c.i)
  /\ c.h \in LiveHolders
  /\ IF c.tradeItem = NoItem THEN TRUE
     ELSE c.tradeItem # c.i /\ Placed(c.tradeItem)
  /\ LET r == moveOf(c)
     IN  /\ r.ok
         /\ Commit(r.w)
         /\ last' = Call("moveItem", c.i, r.ret)
  /\ UNCHANGED <<redirect, scheduler, tradeVars, lastBucket, creatureTile, creatureVars, catalogue>>

RemoveItem(i, count, test) ==
  /\ Quiet
  /\ Placed(i)
  /\ LET r == internalRemoveItem(World, i, count, test)
     IN  /\ Commit(r.w)
         /\ last' = Call("removeItem", i, r.ret)
  /\ UNCHANGED <<redirect, scheduler, tradeVars, lastBucket, creatureTile, creatureVars, catalogue>>

TransformItem(i, newId, newCount) ==
  /\ Quiet
  /\ Placed(i)
  /\ LET r == transformItem(World, i, newId, newCount)
     IN  /\ r.ok
         /\ Commit(r.w)
         /\ last' = Call("transformItem", i, "NOERROR")
  /\ UNCHANGED <<redirect, scheduler, tradeVars, lastBucket, creatureTile, creatureVars, catalogue>>

StartDecay(i) ==
  /\ Quiet
  /\ Placed(i)
  /\ LET r == startDecay(World, i)
     IN  /\ r.ok
         /\ Commit(r.w)
         /\ last' = Call("startDecay", i, "NOERROR")
  /\ UNCHANGED <<redirect, scheduler, tradeVars, lastBucket, creatureTile, creatureVars, catalogue>>

CheckDecay ==
  /\ LET r == checkDecay(World, lastBucket)
     IN  /\ r.ok
         /\ Commit(r.w)
         /\ lastBucket' = r.lastBucket
  /\ CommitCreatures(cleanupCreatures(CreatureWorld))
  /\ last' = Call("checkDecay", NoItem, "NOERROR")
  /\ UNCHANGED <<redirect, scheduler, tradeVars, creatureTile, catalogue>>

\* cleanup() at the end of another tick handler (checkCreatures, ...)
Cleanup ==
  /\ ToReleaseItems # <<>> \/ toDecayItems # <<>> \/ ToReleaseCreatures # <<>>
  /\ Commit(cleanup(World, lastBucket))
  /\ CommitCreatures(cleanupCreatures(CreatureWorld))
  /\ last' = Call("cleanup", NoItem, "NOERROR")
  /\ UNCHANGED <<redirect, scheduler, tradeVars, lastBucket, creatureTile, catalogue>>

RECURSIVE followFloors(_, _, _, _, _)
\* lines 821-837: the creature follows the floor changes of the tile it was
\* moved onto; n counts the redirects.  script = k: during the k-th
\* map.moveCreature a script moves the creature to tile st (line 824).
followFloors(to, fromCylinder, n, script, st) ==
  LET sub == queryDestination(World, to, 0, NoItem).h
  IN  IF sub = to
      THEN [tile |-> to, from |-> fromCylinder, n |-> n]
      ELSE IF script = n + 1 /\ st # sub
      THEN [tile |-> st, from |-> NoHolder, n |-> n]
      ELSE IF depthReached(n + 1)
      THEN [tile |-> sub, from |-> to, n |-> n + 1]
      ELSE followFloors(sub, to, n + 1, script, st)

\* lines 800-851: internalMoveCreature(Creature&, Tile&, flags)
internalMoveCreature(toTile, script, st) ==
  LET ret == queryAdd(World, toTile, 0, NoItem, 1, FALSE)
      r == followFloors(toTile, NoHolder, 0, script, st)
  IN  IF ret # "NOERROR"
      THEN [ret |-> ret, tile |-> creatureTile, from |-> NoHolder, n |-> 0]
      ELSE [ret |-> "NOERROR", tile |-> r.tile, from |-> r.from, n |-> r.n]

MoveCreature(toTile, script, st) ==
  /\ LET r == internalMoveCreature(toTile, script, st)
     IN  /\ creatureTile' = r.tile
         /\ last' = Call("moveCreature", NoItem, r.ret)
  /\ log' = <<>>
  /\ UNCHANGED <<item, contents, redirect, scheduler, tradeVars, decayItems, toDecayItems,
                 lastBucket, ToReleaseItems, creatureVars, catalogue>>

(***************************************************************************)
(* The map (map.cpp, tile.cpp, not in src/): modelled from spec.md section *)
(* 4.3.  The three tiles are one row: T1 and T2 on level 7, T3 one level   *)
(* up (z = 6) behind T2, and T2 has height 3 (a ramp).  Every tile has a   *)
(* ground; a tile takes a creature when no other creature stands on it or  *)
(* when the flags ignore blocking creatures (flags = TRUE).                *)
(***************************************************************************)
Pos ==
  [t \in Tiles |-> CASE t = "T1" -> Position(1, 0, 7)
                     [] t = "T2" -> Position(2, 0, 7)
                     [] OTHER -> Position(3, 0, 6)]
HighTiles == {"T2"}
Directions == {"EAST", "WEST", "NORTHEAST"}

getTile(p) ==
  IF \E t \in Tiles : Pos[t] = p THEN CHOOSE t \in Tiles : Pos[t] = p
  ELSE NoHolder

getNextPosition(direction, p) ==
  CASE direction = "EAST" -> [p EXCEPT !.x = @ + 1]
    [] direction = "WEST" -> [p EXCEPT !.x = @ - 1]
    [] OTHER -> [p EXCEPT !.x = @ + 1, !.y = @ - 1]

isDiagonal(direction) == direction = "NORTHEAST"
hasHeight(t) == t \in HighTiles
hasFloorChange(t) == redirect[t] # t
Above(p) == [p EXCEPT !.z = @ - 1]
Below(p) == [p EXCEPT !.z = @ + 1]
isPlayer(c) == c = "c1"
\* the master of a summon
Master ==
  [c \in Creatures |-> CASE c = "c2" -> "c1"
                         [] c = "c3" -> "c2"
                         [] OTHER -> NoCreature]
\* creature->summons: a summon is put on its master's list when it is made
\* and placed
summons(cw, c) ==
  SelectSeq(CreatureSeq,
            LAMBDA x : Master[x] = c /\ cw.creature[x].parent # NoHolder)

getPosition(cw, c) ==
  IF cw.creature[c].parent = NoHolder THEN NoPosition
  ELSE Pos[cw.creature[c].parent]

\* Tile::queryAdd for a creature
creatureQueryAdd(cw, t, c, flags) ==
  IF ~flags /\ \E o \in Creatures : o # c /\ cw.creature[o].onTile = t
  THEN "NOTENOUGHROOM" ELSE "NOERROR"

\* Map::placeCreature: the tiles it may put the creature on.  The tile of
\* the position when it takes the creature or the call is forced, else one
\* of the tiles next to the position (two steps with extendedPos) that
\* take it.
placeTargets(cw, c, p, extendedPos, forced) ==
  IF getTile(p) # NoHolder
     /\ (forced \/ creatureQueryAdd(cw, getTile(p), c, FALSE) = "NOERROR")
  THEN {getTile(p)}
  ELSE {t \in Tiles :
          /\ Pos[t].z = p.z /\ Pos[t].y = p.y /\ Pos[t].x # p.x
          /\ Pos[t].x - p.x \in (IF extendedPos THEN -2..2 ELSE -1..1)
          /\ creatureQueryAdd(cw, t, c, FALSE) = "NOERROR"}

\* the index of c in CreatureSeq, the id setID gives
autoID(c) == CHOOSE k \in 1..Len(CreatureSeq) : CreatureSeq[k] = c

\* what placeCreature, removeCreature and moveCreature return
CreatureResult(cw, ret) == [cw |-> cw, ret |-> ret]

\* a placement that does not ask whether the creature has a holder
placeAgain(cw, c, t) ==
  IF t = NoHolder THEN CreatureResult(cw, FALSE)
  ELSE CreatureResult(
         [cw EXCEPT !.creature[c].parent = t,
                    !.creature[c].onTile = t,
                    !.creature[c].refs = @ + 1,
                    !.creature[c].id = IF @ = 0 THEN autoID(c) ELSE @,
                    !.creature[c].listed = TRUE],
         TRUE)

\* lines 477-492; t is the tile Map::placeCreature found, NoHolder when it
\* found none
internalPlaceCreature(cw, c, t) ==
  IF cw.creature[c].parent # NoHolder THEN CreatureResult(cw, FALSE)
  ELSE IF t = NoHolder THEN CreatureResult(cw, FALSE)
  ELSE CreatureResult(
         [cw EXCEPT !.creature[c].parent = t,
                    !.creature[c].onTile = t,
                    !.creature[c].refs = @ + 1,
                    !.creature[c].id = IF @ = 0 THEN autoID(c) ELSE @,
                    !.creature[c].listed = TRUE],
         TRUE)

\* an enrollment that does not ask whether the creature is in a list
addCreatureCheckAgain(cw, c, b) ==
  [cw EXCEPT !.creature[c].creatureCheck = TRUE,
             !.creature[c].inCheckCreaturesVector = TRUE,
             !.checkCreatureLists[b] = Append(@, c),
             !.creature[c].refs = @ + 1]

\* lines 3647-3659: b is what uniform_random returned
addCreatureCheck(cw, c, b) ==
  IF cw.creature[c].inCheckCreaturesVector
  THEN [cw EXCEPT !.creature[c].creatureCheck = TRUE]
  ELSE [cw EXCEPT !.creature[c].creatureCheck = TRUE,
                  !.creature[c].inCheckCreaturesVector = TRUE,
                  !.checkCreatureLists[b] = Append(@, c),
                  !.creature[c].refs = @ + 1]

\* a creature that stays checked
keepChecked(cw, c) == cw

\* lines 3661-3666
removeCreatureCheck(cw, c) ==
  IF cw.creature[c].inCheckCreaturesVector
  THEN [cw EXCEPT !.creature[c].creatureCheck = FALSE] ELSE cw

\* lines 500-516: p is what internalPlaceCreature returned
placed(p, c, b) ==
  IF ~p.ret THEN p
  ELSE CreatureResult(
         addCreatureCheck(
           Log(Log(p.cw, <<"onCreatureAppear", c>>),
               <<"postAdd", p.cw.creature[c].parent, c>>),
           c, b),
         TRUE)

\* lines 494-518
placeCreature(cw, c, t, b) == placed(internalPlaceCreature(cw, c, t), c, b)

\* lines 538-561: the creature leaves its tile, the lookup table and the
\* check list, and is queued for release
removedCreature(cw, c) ==
  removeCreatureCheck(
    ReleaseCreature(
      [Log(Log([cw EXCEPT !.creature[c].onTile = NoHolder],
               <<"onRemoveCreature", c>>),
           <<"postRemove", cw.creature[c].parent, c>>)
         EXCEPT !.creature[c].listed = FALSE,
                !.creature[c].removed = TRUE],
      c),
    c)

\* a removal that leaves the summons where they are
keepSummons(cw, s, k) == cw

RECURSIVE removeCreature(_, _)
RECURSIVE removeSummons(_, _, _)
\* lines 563-566: the summons of the list s, from position k on
removeSummons(cw, s, k) ==
  IF k > Len(s) THEN cw
  ELSE removeSummons(removeCreature(cw, s[k]).cw, s, k + 1)

\* lines 520-568
removeCreature(cw, c) ==
  IF cw.creature[c].removed THEN CreatureResult(cw, FALSE)
  ELSE CreatureResult(removeSummons(removedCreature(cw, c), summons(cw, c), 1),
                      TRUE)

\* lines 3677-3681: the callbacks of a creature that is checked; dead are
\* the creatures that answer isDead()
think(cw, c, dead) ==
  IF c \in dead THEN cw
  ELSE Log(Log(Log(cw, <<"onThink", c>>), <<"onAttacking", c>>),
           <<"executeConditions", c>>)

RECURSIVE checkCreatureLoop(_, _, _, _)
\* lines 3673-3688: the entries of list index, from position k on
checkCreatureLoop(cw, index, k, dead) ==
  IF k > Len(cw.checkCreatureLists[index]) THEN cw
  ELSE IF cw.creature[cw.checkCreatureLists[index][k]].creatureCheck
  THEN checkCreatureLoop(think(cw, cw.checkCreatureLists[index][k], dead),
                         index, k + 1, dead)
  ELSE checkCreatureLoop(
         ReleaseCreature(
           [cw EXCEPT
              !.creature[cw.checkCreatureLists[index][k]]
                 .inCheckCreaturesVector = FALSE,
              !.checkCreatureLists[index] = RemoveAt(@, k)],
           cw.checkCreatureLists[index][k]),
         index, k, dead)

\* lines 3668-3691
checkCreatures(cw, index, dead) ==
  cleanupCreatures(checkCreatureLoop(cw, index, 1, dead))

\* lines 763-777: the player goes up a level
goesUp(cw, c, direction) ==
  /\ isPlayer(c) /\ ~isDiagonal(direction)
  /\ getPosition(cw, c).z # 8
  /\ hasHeight(cw.creature[c].parent)
  /\ getTile(Above(getPosition(cw, c))) = NoHolder
  /\ getTile(Above(getNextPosition(direction, getPosition(cw, c))))
       # NoHolder
turnsUp(cw, c, direction) ==
  /\ goesUp(cw, c, direction)
  /\ ~hasFloorChange(
        getTile(Above(getNextPosition(direction, getPosition(cw, c)))))
destUp(cw, c, direction) ==
  IF turnsUp(cw, c, direction)
  THEN Above(getNextPosition(direction, getPosition(cw, c)))
  ELSE getNextPosition(direction, getPosition(cw, c))

\* lines 780-790: the player goes down a level
goesDown(cw, c, direction) ==
  /\ isPlayer(c) /\ ~isDiagonal(direction)
  /\ getPosition(cw, c).z # 7
  /\ getPosition(cw, c).z = destUp(cw, c, direction).z
  /\ getTile(destUp(cw, c, direction)) = NoHolder
  /\ getTile(Below(destUp(cw, c, direction))) # NoHolder
  /\ hasHeight(getTile(Below(destUp(cw, c, direction))))
destPos(cw, c, direction) ==
  IF goesDown(cw, c, direction) THEN Below(destUp(cw, c, direction))
  ELSE destUp(cw, c, direction)

\* lines 770, 786: player->setDirection(direction)
stepTurned(cw, c, direction) ==
  IF turnsUp(cw, c, direction) \/ goesDown(cw, c, direction)
  THEN [cw EXCEPT !.creature[c].direction = direction] ELSE cw

getDirectionTo(from, to) == IF to.x > from.x THEN "EAST" ELSE "WEST"

\* lines 839-848: r is what the floor changes left
floorTurned(cw, c, r) ==
  IF /\ r.from # NoHolder
     /\ Pos[r.from].z # Pos[r.tile].z
     /\ Pos[r.from].x # Pos[r.tile].x
  THEN [cw EXCEPT !.creature[c].direction =
                     getDirectionTo(Pos[r.from], Pos[r.tile])]
  ELSE cw

\* lines 807-837: map.moveCreature onto the tile and the floor changes
movedOnto(cw, c, r) ==
  floorTurned([Log(cw, <<"moveCreature", r.tile, c>>) EXCEPT
                 !.creature[c].parent = r.tile,
                 !.creature[c].onTile = r.tile],
              c, r)

\* lines 800-851, for the creatures of the check list: no script moves
\* the creature during the call
moveCreatureOnto(cw, c, toTile, flags) ==
  IF creatureQueryAdd(cw, toTile, c, flags) # "NOERROR"
  THEN CreatureResult(cw, creatureQueryAdd(cw, toTile, c, flags))
  ELSE CreatureResult(
         movedOnto(cw, c, followFloors(toTile, NoHolder, 0, 0, toTile)),
         "NOERROR")

\* line 756
setLastPosition(cw, c) ==
  [cw EXCEPT !.creature[c].lastPosition = getPosition(cw, c)]

\* lines 756-791: the state the checks of lines 793-797 see
stepPrepared(cw, c, direction, flags) ==
  stepTurned(setLastPosition(cw, c), c, direction)

\* lines 754-798: internalMoveCreature(creature, direction, flags).  The
\* destination is computed from the position the creature has on entry.
internalMoveCreatureDir(cw, c, direction, flags) ==
  IF getTile(destPos(cw, c, direction)) = NoHolder
  THEN CreatureResult(stepPrepared(cw, c, direction, flags), "NOTPOSSIBLE")
  ELSE moveCreatureOnto(stepPrepared(cw, c, direction, flags), c,
                        getTile(destPos(cw, c, direction)),
                        flags \/ goesUp(cw, c, direction)
                          \/ goesDown(cw, c, direction))

(***************************************************************************)
(* The requests of a player to move a thing (lines 580-752, 853-1050) and  *)
(* their retries.  g is the game: the items w, the creatures cw and the    *)
(* player's tasks; the messages sent to the player are in the log of w.    *)
(* A request meets Player::canDoAction, what Player::getPathTo finds and   *)
(* what the before-move event answers.  Positions are map positions.       *)
(***************************************************************************)
GameWorld ==
  [w |-> World, cw |-> CreatureWorld, scheduler |-> scheduler,
   player |-> player, tradeItems |-> tradeItems]
Met(canDoAction, path, veto) ==
  [canDoAction |-> canDoAction, path |-> path, veto |-> veto]

sendCancelMessage(g, p, ret) ==
  [g EXCEPT !.w = Log(g.w, <<"sendCancelMessage", p, ret>>)]
setNextActionTask(g, task) == [g EXCEPT !.scheduler.action = task]
setNextWalkActionTask(g, task) == [g EXCEPT !.scheduler.walk = task]
\* g_dispatcher.addTask(playerAutoWalk): the walk is the dispatcher's
addAutoWalk(g, p) == [g EXCEPT !.w = Log(g.w, <<"playerAutoWalk", p>>)]

Distance(a, b) == IF a >= b THEN a - b ELSE b - a
\* Position::areInRange<1, 1, 0> and Position::areInRange<1, 1>
areInRangeZ(a, b) ==
  Distance(a.x, b.x) <= 1 /\ Distance(a.y, b.y) <= 1 /\ a.z = b.z
areInRange(a, b) == Distance(a.x, b.x) <= 1 /\ Distance(a.y, b.y) <= 1

\* a lookup that still knows the creatures that left the world
getAnyByID(cw, id) ==
  IF id # 0 /\ \E c \in Creatures : cw.creature[c].id = id
  THEN CHOOSE c \in Creatures : cw.creature[c].id = id
  ELSE NoCreature

\* lines 310-358: the lookup tables hold the creatures between addList and
\* removeList
getCreatureByID(cw, id) ==
  IF id # 0 /\ \E c \in Creatures : cw.creature[c].listed
                                    /\ cw.creature[c].id = id
  THEN CHOOSE c \in Creatures : cw.creature[c].listed /\ cw.creature[c].id = id
  ELSE NoCreature

\* lines 348-358
getPlayerByID(cw, id) ==
  IF getCreatureByID(cw, id) # NoCreature /\ isPlayer(getCreatureByID(cw, id))
  THEN getCreatureByID(cw, id) ELSE NoCreature

\* Tile::getTopDownItem and Tile::getTopVisibleCreature
getTopDownItem(w, t) ==
  IF \E k \in 1..Len(w.contents[t]) :
       ~ItemType[w.item[w.contents[t][k]].id].alwaysOnTop
  THEN w.contents[t][CHOOSE k \in 1..Len(w.contents[t]) :
         /\ ~ItemType[w.item[w.contents[t][k]].id].alwaysOnTop
         /\ \A j \in 1..(k - 1) :
              ItemType[w.item[w.contents[t][j]].id].alwaysOnTop]
  ELSE NoItem
getTopVisibleCreature(cw, t) ==
  IF \E c \in Creatures : cw.creature[c].onTile = t
  THEN CHOOSE c \in Creatures :
         /\ cw.creature[c].onTile = t
         /\ \A o \in Creatures :
              cw.creature[o].onTile = t => autoID(c) <= autoID(o)
  ELSE NoCreature

\* lines 185-231, STACKPOS_MOVE: the thing of the tile at pos a player moves
Thing(i, c) == [item |-> i, creature |-> c]
internalGetThing(g, pos) ==
  IF getTile(pos) = NoHolder THEN Thing(NoItem, NoCreature)
  ELSE IF getTopDownItem(g.w, getTile(pos)) # NoItem
          /\ ItemType[g.w.item[getTopDownItem(g.w, getTile(pos))].id].moveable
  THEN Thing(getTopDownItem(g.w, getTile(pos)), NoCreature)
  ELSE Thing(NoItem, getTopVisibleCreature(g.cw, getTile(pos)))

\* the closures of lines 660-663, 685-690 and 610-613
MoveCreatureTask(g, p, c, origPos, toPos) ==
  Task("playerMoveCreatureByID", g.cw.creature[p].id, g.cw.creature[c].id,
       origPos, NoType, toPos, 0)
\* the closures of lines 868-870 and 940-943
MoveItemTask(g, p, fromPos, spriteId, toPos, count) ==
  Task("playerMoveItemByPlayerID", g.cw.creature[p].id, 0, fromPos, spriteId,
       toPos, count)

\* lines 678-697: the player walks to the creature first
walkToCreature(g, p, c, origPos, toTile, met) ==
  IF met.path
  THEN setNextWalkActionTask(addAutoWalk(g, p),
                             MoveCreatureTask(g, p, c, origPos, Pos[toTile]))
  ELSE sendCancelMessage(g, p, "THEREISNOWAY")

\* lines 707-737: throw distance (Creature::getThrowRange is 1) and the
\* creatures of the destination
pushRefusal(g, p, c, toTile) ==
  IF \/ Distance(getPosition(g.cw, c).x, Pos[toTile].x) > 1
     \/ Distance(getPosition(g.cw, c).y, Pos[toTile].y) > 1
     \/ Distance(getPosition(g.cw, c).z, Pos[toTile].z) * 4 > 1
  THEN "DESTINATIONOUTOFREACH"
  ELSE IF p # c /\ \E o \in Creatures : g.cw.creature[o].onTile = toTile
  THEN "NOTENOUGHROOM"
  ELSE "NOERROR"

\* lines 748-751: r is what internalMoveCreature returned
pushed(g, p, r) ==
  IF r.ret # "NOERROR"
  THEN sendCancelMessage([g EXCEPT !.cw = r.cw], p, r.ret)
  ELSE [g EXCEPT !.cw = r.cw]

\* lines 676-751: the player can act
pushNow(g, p, c, origPos, toTile, met) ==
  IF ~areInRangeZ(origPos, getPosition(g.cw, p))
  THEN walkToCreature(g, p, c, origPos, toTile, met)
  ELSE IF pushRefusal(g, p, c, toTile) # "NOERROR"
  THEN sendCancelMessage(g, p, pushRefusal(g, p, c, toTile))
  ELSE IF met.veto THEN g
  ELSE pushed(g, p, moveCreatureOnto(g.cw, c, toTile, FALSE))

\* lines 655-752
playerMoveCreature(g, p, c, origPos, toTile, met) ==
  IF ~met.canDoAction
  THEN setNextActionTask(g, MoveCreatureTask(g, p, c, origPos, Pos[toTile]))
  ELSE pushNow(setNextActionTask(g, NoTask), p, c, origPos, toTile, met)

\* lines 633-653
playerMoveCreatureByID(g, playerId, movingCreatureId, origPos, toPos, met) ==
  IF getPlayerByID(g.cw, playerId) = NoCreature THEN g
  ELSE IF getCreatureByID(g.cw, movingCreatureId) = NoCreature THEN g
  ELSE IF getTile(toPos) = NoHolder
  THEN sendCancelMessage(g, getPlayerByID(g.cw, playerId), "NOTPOSSIBLE")
  ELSE playerMoveCreature(g, getPlayerByID(g.cw, playerId),
                          getCreatureByID(g.cw, movingCreatureId), origPos,
                          getTile(toPos), met)

\* lines 923-947: the player walks to the item first
walkToItem(g, p, fromPos, spriteId, toPos, count, met) ==
  IF met.path
  THEN setNextWalkActionTask(addAutoWalk(g, p),
                             MoveItemTask(g, p, fromPos, spriteId, toPos,
                                          count))
  ELSE sendCancelMessage(g, p, "THEREISNOWAY")

\* lines 1043-1049: r is what internalMoveItem returned
thrown(g, p, r) ==
  IF r.ret # "NOERROR"
  THEN sendCancelMessage([g EXCEPT !.w = r.w], p, r.ret)
  ELSE [g EXCEPT !.w = r.w]

\* lines 1013-1049: Item::getThrowRange is 15 for an item one can pick up
throwNow(g, p, i, fromPos, toPos, count, met) ==
  IF \/ Distance(getPosition(g.cw, p).x, toPos.x) > 15
     \/ Distance(getPosition(g.cw, p).y, toPos.y) > 15
  THEN sendCancelMessage(g, p, "DESTINATIONOUTOFREACH")
  ELSE thrown(g, p,
              internalMoveItem(g.w, getTile(fromPos), getTile(toPos), 0, i,
                               count, FALSE,
                               [player |-> TRUE, veto |-> met.veto,
                                veto2 |-> FALSE],
                               NoItem))

\* lines 912-947: the checks of the source
reachItem(g, p, i, fromPos, toPos, count, met) ==
  IF ~ItemType[g.w.item[i].id].moveable
  THEN sendCancelMessage(g, p, "NOTMOVEABLE")
  ELSE IF getPosition(g.cw, p).z # fromPos.z
  THEN sendCancelMessage(g, p, IF getPosition(g.cw, p).z > fromPos.z
                               THEN "FIRSTGOUPSTAIRS"
                               ELSE "FIRSTGODOWNSTAIRS")
  ELSE IF ~areInRange(getPosition(g.cw, p), fromPos)
  THEN walkToItem(g, p, fromPos, g.w.item[i].id, toPos, count, met)
  ELSE throwNow(g, p, i, fromPos, toPos, count, met)

\* lines 877-910: i is the item the caller found, NoItem for a retry
foundItem(g, p, fromPos, spriteId, toPos, count, i, met) ==
  IF i = NoItem THEN sendCancelMessage(g, p, "NOTPOSSIBLE")
  ELSE IF g.w.item[i].id # spriteId
  THEN sendCancelMessage(g, p, "NOTPOSSIBLE")
  ELSE IF getTile(fromPos) = NoHolder \/ getTile(toPos) = NoHolder
  THEN sendCancelMessage(g, p, "NOTPOSSIBLE")
  ELSE reachItem(g, p, i, fromPos, toPos, count, met)

\* lines 863-1050
playerMoveItem(g, p, fromPos, spriteId, toPos, count, i, met) ==
  IF ~met.canDoAction
  THEN setNextActionTask(g, MoveItemTask(g, p, fromPos, spriteId, toPos,
                                         count))
  ELSE foundItem(setNextActionTask(g, NoTask), p, fromPos, spriteId, toPos,
                 count,
                 IF i # NoItem THEN i ELSE internalGetThing(g, fromPos).item,
                 met)

\* lines 853-861
playerMoveItemByPlayerID(g, playerId, fromPos, spriteId, toPos, count, met) ==
  IF getPlayerByID(g.cw, playerId) = NoCreature THEN g
  ELSE playerMoveItem(g, getPlayerByID(g.cw, playerId), fromPos, spriteId,
                      toPos, count, NoItem, met)

\* lines 604-619: the thing is a creature
moveThingCreature(g, p, c, fromPos, toPos, met) ==
  IF getTile(toPos) = NoHolder THEN sendCancelMessage(g, p, "NOTPOSSIBLE")
  ELSE IF areInRangeZ(getPosition(g.cw, c), getPosition(g.cw, p))
  THEN setNextActionTask(g, MoveCreatureTask(g, p, c, fromPos, toPos))
  ELSE playerMoveCreature(g, p, c, getPosition(g.cw, c), getTile(toPos), met)

\* lines 598-631: th is the thing at fromPos
moveThing(g, p, th, fromPos, spriteId, toPos, count, met) ==
  IF th.item = NoItem /\ th.creature = NoCreature
  THEN sendCancelMessage(g, p, "NOTPOSSIBLE")
  ELSE IF th.creature # NoCreature
  THEN moveThingCreature(g, p, th.creature, fromPos, toPos, met)
  ELSE IF getTile(toPos) = NoHolder
  THEN sendCancelMessage(g, p, "NOTPOSSIBLE")
  ELSE playerMoveItem(g, p, fromPos, spriteId, toPos, count, th.item, met)

\* lines 580-632
playerMoveThing(g, playerId, fromPos, spriteId, toPos, count, met) ==
  IF getPlayerByID(g.cw, playerId) = NoCreature THEN g
  ELSE moveThing(g, getPlayerByID(g.cw, playerId),
                 internalGetThing(g, fromPos), fromPos, spriteId, toPos,
                 count, met)

\* the positions a caller names: the tiles' and one that has no tile
\* a call without an actor
NoHooks == [player |-> FALSE, veto |-> FALSE, veto2 |-> FALSE]

(***************************************************************************)
(* Trade (lines 2562-2828, 2913-2970).  g is the game; the messages and    *)
(* trade events go to the log of g.w.  What a request meets is the answer  *)
(* of the position checks and of the trade events, which are not in src/.  *)
(***************************************************************************)
\* getPlayerByID for the players that trade
getTraderByID(id) ==
  IF \E p \in Players : getID(p) = id
  THEN CHOOSE p \in Players : getID(p) = id ELSE NoPlayer

sendTextMessage(g, p, text) ==
  [g EXCEPT !.w = Log(g.w, <<"sendTextMessage", p, text>>)]
sendTradeItemRequest(g, p, name, i, ack) ==
  [g EXCEPT !.w = Log(g.w, <<"sendTradeItemRequest", p, name, i, ack>>)]
sendTradeClose(g, p) == [g EXCEPT !.w = Log(g.w, <<"sendTradeClose", p>>)]
onTradeEvent(g, i, event, p) ==
  [g EXCEPT !.w = Log(g.w, <<"onTradeEvent", i, event, p>>)]

\* Container::isHoldingItem: i is somewhere inside container c
isHoldingItem(w, c, i) == i # c /\ inChain(w, w.item[i].parent, c)

\* the keys of the map
TradedItems(g) == {x \in Items : g.tradeItems[x] # 0}

\* an erase that keeps the reference of the map
eraseUnreleased(g, i) ==
  IF i # NoItem /\ g.tradeItems[i] # 0 THEN [g EXCEPT !.tradeItems[i] = 0]
  ELSE g

\* lines 2755-2765, 2932-2936: find, ReleaseItem and erase
eraseTradeItem(g, i) ==
  IF i # NoItem /\ g.tradeItems[i] # 0
  THEN [g EXCEPT !.w = ReleaseItem(g.w, i), !.tradeItems[i] = 0]
  ELSE g

\* lines 2930-2942, 2950-2962: one side of the trade is reset
closeSide(g, p, sendCancel) ==
  sendTradeClose(
    (IF sendCancel THEN sendTextMessage(
                          [(IF g.player[p].tradeItem # NoItem
                            THEN onTradeEvent(
                                   eraseTradeItem(g, g.player[p].tradeItem),
                                   g.player[p].tradeItem, "ON_TRADE_CANCEL", p)
                            ELSE g) EXCEPT !.player[p] = NoTrade],
                          p, "Trade cancelled.")
     ELSE [(IF g.player[p].tradeItem # NoItem
            THEN onTradeEvent(eraseTradeItem(g, g.player[p].tradeItem),
                              g.player[p].tradeItem, "ON_TRADE_CANCEL", p)
            ELSE g) EXCEPT !.player[p] = NoTrade]),
    p)

\* a close that does not ask for the transfer state
closeAlways(g, p, sendCancel) ==
  IF g.player[p].tradePartner = NoPlayer THEN closeSide(g, p, sendCancel)
  ELSE closeSide(closeSide(g, p, sendCancel), g.player[p].tradePartner,
                 sendCancel)

\* lines 2923-2970
internalCloseTrade(g, p, sendCancel) ==
  IF \/ (g.player[p].tradePartner # NoPlayer
         /\ g.player[g.player[p].tradePartner].tradeState = "TRADE_TRANSFER")
     \/ g.player[p].tradeState = "TRADE_TRANSFER"
  THEN g
  ELSE IF g.player[p].tradePartner = NoPlayer
  THEN closeSide(g, p, sendCancel)
  ELSE closeSide(closeSide(g, p, sendCancel), g.player[p].tradePartner,
                 sendCancel)

\* lines 2913-2921
playerCloseTrade(g, playerId) ==
  IF getTraderByID(playerId) = NoPlayer THEN g
  ELSE internalCloseTrade(g, getTraderByID(playerId), TRUE)

\* lines 2703-2714: the partner learns of the offer
offerShown(g, p, q, i) ==
  IF g.player[q].tradeState = "TRADE_NONE"
  THEN [sendTextMessage(g, q, "wants to trade with you")
          EXCEPT !.player[q].tradeState = "TRADE_ACKNOWLEDGE",
                 !.player[q].tradePartner = p]
  ELSE sendTradeItemRequest(
         sendTradeItemRequest(g, p, q, g.player[q].tradeItem, FALSE),
         q, p, i, FALSE)

\* lines 2685-2716
internalStartTrade(g, p, q, i) ==
  IF /\ g.player[p].tradeState # "TRADE_NONE"
     /\ ~(g.player[p].tradeState = "TRADE_ACKNOWLEDGE"
          /\ g.player[p].tradePartner = q)
  THEN [g |-> sendCancelMessage(g, p, "YOUAREALREADYTRADING"), ret |-> FALSE]
  ELSE IF /\ g.player[q].tradeState # "TRADE_NONE"
          /\ g.player[q].tradePartner # p
  THEN [g |-> sendCancelMessage(g, p, "THISPLAYERISALREADYTRADING"),
        ret |-> FALSE]
  ELSE [g |-> offerShown(
                sendTradeItemRequest(
                  [g EXCEPT !.player[p] = [tradeState |-> "TRADE_INITIATED",
                                           tradePartner |-> q,
                                           tradeItem |-> i],
                            !.w.item[i].refs = @ + 1,
                            !.tradeItems[i] = getID(p)],
                  p, p, i, TRUE),
                p, q, i),
        ret |-> TRUE]

\* what a request meets: the players in range <2,2,0> and in throwing
\* reach, the item on the player's floor, within one step or with a path to
\* it, and the answer of eventPlayerOnTradeRequest
Reach(inRange, canThrow, floor, near, path, veto) ==
  [inRange |-> inRange, canThrow |-> canThrow, floor |-> floor,
   near |-> near, path |-> path, veto |-> veto]

\* a check that looks at the item alone
tradedItself(g, i) == i \in TradedItems(g)

\* lines 2636-2670: the item, something in it or a container around it is
\* already offered
alreadyTraded(g, i) ==
  \E x \in TradedItems(g) :
    \/ i = x
    \/ (isContainer(g.w, i) /\ isHoldingItem(g.w, i, x))
    \/ (isContainer(g.w, x) /\ isHoldingItem(g.w, x, i))

\* lines 2617-2633: the item is out of reach; the player walks and the
\* request is scheduled again, which is a later call with the same arguments
requestFromAfar(g, p, reach) ==
  IF reach.path
  THEN [addAutoWalk(g, p) EXCEPT
          !.w = Log(@, <<"setNextWalkActionTask", p, "playerRequestTrade">>)]
  ELSE sendCancelMessage(g, p, "THEREISNOWAY")

\* lines 2572-2615: the checks before the item's place is looked at.  i is
\* the thing internalGetThing finds at pos and stackPos, NoItem for none;
\* isPickupable is the type's moveable, and the model has no unique ids and
\* no houses.
requestRefusal(g, p, q, i, spriteId, reach) ==
  IF q = NoPlayer \/ q = p THEN "Select a player to trade with."
  ELSE IF ~reach.inRange THEN "DESTINATIONOUTOFREACH"
  ELSE IF ~reach.canThrow THEN "CANNOTTHROW"
  ELSE IF i = NoItem THEN "NOTPOSSIBLE"
  ELSE IF g.w.item[i].id # spriteId \/ ~ItemType[g.w.item[i].id].moveable
  THEN "NOTPOSSIBLE"
  ELSE IF reach.floor = "above" THEN "FIRSTGOUPSTAIRS"
  ELSE IF reach.floor = "below" THEN "FIRSTGODOWNSTAIRS"
  ELSE "NOERROR"

\* lines 2562-2683; a container of the model never holds 100 objects
playerRequestTrade(g, playerId, i, tradePlayerId, spriteId, reach) ==
  IF getTraderByID(playerId) = NoPlayer THEN g
  ELSE IF requestRefusal(g, getTraderByID(playerId),
                         getTraderByID(tradePlayerId), i, spriteId, reach)
          # "NOERROR"
  THEN sendCancelMessage(g, getTraderByID(playerId),
                         requestRefusal(g, getTraderByID(playerId),
                                        getTraderByID(tradePlayerId), i,
                                        spriteId, reach))
  ELSE IF ~reach.near
  THEN requestFromAfar(g, getTraderByID(playerId), reach)
  ELSE IF alreadyTraded(g, i)
  THEN sendCancelMessage(g, getTraderByID(playerId),
                         "This item is already being traded.")
  ELSE IF reach.veto
  THEN [g EXCEPT !.w = Log(g.w, <<"onTradeRequest", getTraderByID(playerId),
                                  getTraderByID(tradePlayerId), i, FALSE>>)]
  ELSE internalStartTrade(
         [g EXCEPT !.w = Log(g.w, <<"onTradeRequest",
                                    getTraderByID(playerId),
                                    getTraderByID(tradePlayerId), i, TRUE>>)],
         getTraderByID(playerId), getTraderByID(tradePlayerId), i).g

\* Player::getInventoryItem: the players of the model wear no backpack and
\* hold what they hold in the right hand
getInventoryItem(g, p, slot) ==
  IF slot = "CONST_SLOT_RIGHT" THEN getThing(g.w, Hand[p], 0) ELSE NoItem

\* lines 1747-1770: no type of the model has a slot position
getSlotType(t) == "CONST_SLOT_RIGHT"

\* lines 2842-2855
getTradeErrorDescription(ret, i) ==
  IF i # NoItem /\ ret = "NOTENOUGHCAPACITY"
  THEN "You do not have enough capacity to carry this object."
  ELSE IF i # NoItem /\ ret \in {"NOTENOUGHROOM", "CONTAINERNOTENOUGHROOM"}
  THEN "You do not have enough room to carry this object."
  ELSE "Trade could not be completed."

\* the outcome of the transfer: the game, isSuccess and the two answers
Transfer(g, isSuccess, tradePartnerRet, playerRet) ==
  [g |-> g, isSuccess |-> isSuccess, tradePartnerRet |-> tradePartnerRet,
   playerRet |-> playerRet]

\* lines 2773-2783: the owner offers the backpack it wears
wornRet(g, owner, own, other) ==
  IF getInventoryItem(g, owner, "CONST_SLOT_BACKPACK") = own
  THEN IF getInventoryItem(g, owner, getSlotType(g.w.item[other].id))
            # NoItem
       THEN "NOTENOUGHROOM" ELSE "NOERROR"
  ELSE "NOERROR"

\* lines 2786-2789: both offer the backpack they wear
bothWorn(g, p, q, ip, iq) ==
  /\ getInventoryItem(g, p, "CONST_SLOT_BACKPACK") = ip
  /\ getInventoryItem(g, q, "CONST_SLOT_BACKPACK") = iq

\* internalAddItem(player, item, INDEX_WHEREEVER, 0, true), lines 1274-1276
testAdd(g, p, i) ==
  IF i = NoItem THEN "NOTPOSSIBLE"
  ELSE internalAddItem(g.w, p, i, INDEX_WHEREEVER, FALSE, TRUE).ret

\* a callback of an item move closes the trade of player x
reentered(g, x, reenter) ==
  IF reenter THEN internalCloseTrade(g, x, TRUE) ELSE g

\* lines 2802-2806: the second move; its answer is not looked at
secondMove(g, p, q, ip, iq, reenter) ==
  Transfer(
    onTradeEvent(
      onTradeEvent(
        reentered(
          [g EXCEPT !.w = internalMoveItem(g.w, g.w.item[iq].parent, p,
                                           INDEX_WHEREEVER, iq,
                                           g.w.item[iq].count, FALSE, NoHooks,
                                           NoItem).w],
          q, reenter),
        ip, "ON_TRADE_TRANSFER", q),
      iq, "ON_TRADE_TRANSFER", p),
    TRUE, "NOERROR", "NOERROR")

\* lines 2798-2807: the first move, with the partner's item as tradeItem
firstMove(g, p, q, ip, iq, reenter) ==
  IF internalMoveItem(g.w, g.w.item[ip].parent, q, INDEX_WHEREEVER, ip,
                      g.w.item[ip].count, FALSE, NoHooks, iq).ret = "NOERROR"
  THEN secondMove(
         reentered(
           [g EXCEPT !.w = internalMoveItem(g.w, g.w.item[ip].parent, q,
                                            INDEX_WHEREEVER, ip,
                                            g.w.item[ip].count, FALSE,
                                            NoHooks, iq).w],
           p, reenter),
         p, q, ip, iq, reenter)
  ELSE Transfer(g, FALSE,
                internalMoveItem(g.w, g.w.item[ip].parent, q,
                                 INDEX_WHEREEVER, ip, g.w.item[ip].count,
                                 FALSE, NoHooks, iq).ret,
                "NOERROR")

\* lines 2795-2797: both removals are tried
testRemovals(g, p, q, ip, iq, reenter) ==
  IF /\ internalRemoveItem(g.w, ip, g.w.item[ip].count, TRUE).ret = "NOERROR"
     /\ internalRemoveItem(g.w, iq, g.w.item[iq].count, TRUE).ret = "NOERROR"
  THEN firstMove(g, p, q, ip, iq, reenter)
  ELSE Transfer(g, FALSE,
                internalRemoveItem(g.w, iq, g.w.item[iq].count, TRUE).ret,
                internalRemoveItem(g.w, ip, g.w.item[ip].count, TRUE).ret)

\* lines 2792-2794: both additions are tried
testAdditions(g, p, q, ip, iq, reenter) ==
  IF testAdd(g, q, ip) = "NOERROR" /\ testAdd(g, p, iq) = "NOERROR"
  THEN testRemovals(g, p, q, ip, iq, reenter)
  ELSE Transfer(g, FALSE, testAdd(g, q, ip), testAdd(g, p, iq))

\* lines 2767-2810
transferItems(g, p, q, ip, iq, reenter) ==
  IF /\ wornRet(g, q, iq, ip) = "NOERROR"
     /\ ~bothWorn(g, p, q, ip, iq)
     /\ wornRet(g, p, ip, iq) = "NOERROR"
  THEN testAdditions(g, p, q, ip, iq, reenter)
  ELSE Transfer(g, FALSE, wornRet(g, q, iq, ip),
                IF bothWorn(g, p, q, ip, iq) THEN "NOTENOUGHROOM"
                ELSE wornRet(g, p, ip, iq))

\* lines 2815-2819, 2821-2825: a side that offered an item is told
tellFailure(g, x, own, ret, other) ==
  IF g.player[x].tradeItem # NoItem
  THEN onTradeEvent(sendTextMessage(g, x,
                                    getTradeErrorDescription(ret, other)),
                    own, "ON_TRADE_CANCEL", x)
  ELSE g

\* lines 2812-2826
afterTransfer(t, p, q, ip, iq) ==
  IF t.isSuccess THEN t.g
  ELSE tellFailure(tellFailure(t.g, q, iq, t.tradePartnerRet, ip),
                   p, ip, t.playerRet, iq)

\* lines 2828-2838
completeTrade(g, p, q, ip, iq, isSuccess) ==
  sendTradeClose(
    [sendTradeClose(
       [[g EXCEPT !.w = Log(g.w, <<"onTradeCompleted", p, q, ip, iq,
                                   isSuccess>>)]
          EXCEPT !.player[p] = NoTrade],
       p)
       EXCEPT !.player[q] = NoTrade],
    q)

\* lines 2752-2765: the transfer phase is entered
enterTransfer(g, p, q) ==
  eraseTradeItem(
    eraseTradeItem(
      [g EXCEPT !.player[p].tradeState = "TRADE_TRANSFER",
                !.player[q].tradeState = "TRADE_TRANSFER"],
      g.player[p].tradeItem),
    g.player[q].tradeItem)

\* lines 2752-2838
doTransfer(g, p, q, ip, iq, reenter) ==
  completeTrade(
    afterTransfer(transferItems(enterTransfer(g, p, q), p, q, ip, iq,
                                reenter),
                  p, q, ip, iq),
    p, q, ip, iq,
    transferItems(enterTransfer(g, p, q), p, q, ip, iq, reenter).isSuccess)

\* what an acceptance meets: canThrowObjectTo and eventPlayerOnTradeAccept
Consent(canThrow, veto) == [canThrow |-> canThrow, veto |-> veto]

\* lines 2737-2750: both sides have accepted
bothAccepted(g, p, q, consent, reenter) ==
  IF ~consent.canThrow
  THEN sendCancelMessage(
         sendCancelMessage(internalCloseTrade(g, p, FALSE), p, "CANNOTTHROW"),
         q, "CANNOTTHROW")
  ELSE IF consent.veto
  THEN internalCloseTrade(
         [g EXCEPT !.w = Log(g.w, <<"onTradeAccept", p, q, FALSE>>)],
         p, FALSE)
  ELSE doTransfer([g EXCEPT !.w = Log(g.w, <<"onTradeAccept", p, q, TRUE>>)],
                  p, q, g.player[p].tradeItem, g.player[q].tradeItem,
                  reenter)

\* lines 2718-2840
playerAcceptTrade(g, playerId, consent, reenter) ==
  IF getTraderByID(playerId) = NoPlayer THEN g
  ELSE IF g.player[getTraderByID(playerId)].tradeState
            \notin {"TRADE_ACKNOWLEDGE", "TRADE_INITIATED"}
  THEN g
  ELSE IF g.player[getTraderByID(playerId)].tradePartner = NoPlayer THEN g
  ELSE IF g.player[g.player[getTraderByID(playerId)].tradePartner].tradeState
            = "TRADE_ACCEPT"
  THEN bothAccepted(
         [g EXCEPT !.player[getTraderByID(playerId)].tradeState =
                     "TRADE_ACCEPT"],
         getTraderByID(playerId),
         g.player[getTraderByID(playerId)].tradePartner, consent, reenter)
  ELSE [g EXCEPT !.player[getTraderByID(playerId)].tradeState =
                   "TRADE_ACCEPT"]

\* lines 4647-4669 for the game: creatures, items and the pending decays
cleanupGame(g, lb) ==
  [g EXCEPT !.w = cleanup(g.w, lb), !.cw = cleanupCreatures(g.cw)]

\* Creature::onWalk (creature.cpp, not in src/): the creature takes the next
\* step of its walk, direction "NONE" when no step is due
onWalk(g, c, direction) ==
  IF direction = "NONE" THEN g
  ELSE [g EXCEPT !.cw = internalMoveCreatureDir(g.cw, c, direction, FALSE).cw]

\* lines 3622-3629: isDead is what creature->isDead() answers
checkCreatureWalk(g, lb, creatureId, isDead, direction) ==
  IF getCreatureByID(g.cw, creatureId) = NoCreature \/ isDead THEN g
  ELSE cleanupGame(onWalk(g, getCreatureByID(g.cw, creatureId), direction), lb)

PlacePositions == {Pos[t] : t \in Tiles} \cup {Position(4, 0, 6)}
OnMap(c) == creature[c].parent # NoHolder /\ ~creature[c].removed

\* a summon is made and placed by its master
PlaceCreature(c, p, extendedPos, forced, t, b) ==
  /\ Master[c] # NoCreature => OnMap(Master[c])
  /\ t \in placeTargets(CreatureWorld, c, p, extendedPos, forced)
     \/ (t = NoHolder
         /\ placeTargets(CreatureWorld, c, p, extendedPos, forced) = {})
  /\ LET r == placeCreature(CreatureWorld, c, t, b)
     IN  /\ CommitCreatures(r.cw)
         /\ log' = r.cw.log
         /\ last' = Call("placeCreature", c, IF r.ret THEN "NOERROR"
                                             ELSE "NOTPOSSIBLE")
  /\ UNCHANGED <<item, contents, redirect, scheduler, tradeVars, decayItems, toDecayItems,
                 lastBucket, ToReleaseItems, creatureTile, catalogue>>

\* removeCreature is called for creatures that are or were on the map; the
\* dispatcher has run cleanup() at the end of the tick before
RemoveCreature(c) ==
  /\ ToReleaseCreatures = <<>>
  /\ creature[c].parent # NoHolder
  /\ LET r == removeCreature(CreatureWorld, c)
     IN  /\ CommitCreatures(r.cw)
         /\ log' = r.cw.log
         /\ last' = Call("removeCreature", c, IF r.ret THEN "NOERROR"
                                              ELSE "NOTPOSSIBLE")
  /\ UNCHANGED <<item, contents, redirect, scheduler, tradeVars, decayItems, toDecayItems,
                 lastBucket, ToReleaseItems, creatureTile, catalogue>>

MoveCreatureDir(c, direction, flags) ==
  /\ OnMap(c)
  /\ LET r == internalMoveCreatureDir(CreatureWorld, c, direction, flags)
     IN  /\ CommitCreatures(r.cw)
         /\ log' = r.cw.log
         /\ last' = Call("moveCreatureDir", c, r.ret)
  /\ UNCHANGED <<item, contents, redirect, scheduler, tradeVars, decayItems, toDecayItems,
                 lastBucket, ToReleaseItems, creatureTile, catalogue>>

\* addCreatureCheck and removeCreatureCheck called for a creature on their
\* own (a monster that wakes up or falls idle)
AddCreatureCheck(c, b) ==
  /\ CommitCreatures(addCreatureCheck(CreatureWorld, c, b))
  /\ log' = <<>>
  /\ last' = Call("addCreatureCheck", c, "NOERROR")
  /\ UNCHANGED <<item, contents, redirect, scheduler, tradeVars, decayItems, toDecayItems,
                 lastBucket, ToReleaseItems, creatureTile, catalogue>>

RemoveCreatureCheck(c) ==
  /\ CommitCreatures(removeCreatureCheck(CreatureWorld, c))
  /\ log' = <<>>
  /\ last' = Call("removeCreatureCheck", c, "NOERROR")
  /\ UNCHANGED <<item, contents, redirect, scheduler, tradeVars, decayItems, toDecayItems,
                 lastBucket, ToReleaseItems, creatureTile, catalogue>>

\* checkCreatures(index) ends with cleanup()
CheckCreatures(index) ==
  /\ Commit(cleanup(World, lastBucket))
  /\ \E dead \in SUBSET {"c1"} :
       CommitCreatures(checkCreatures(CreatureWorld, index, dead))
  /\ last' = Call("checkCreatures", NoItem, "NOERROR")
  /\ UNCHANGED <<redirect, scheduler, tradeVars, lastBucket, creatureTile, catalogue>>

\* a handler of the dispatcher ends: the game it leaves
CommitGame(g0) ==
  /\ Commit([g0.w EXCEPT !.log = g0.w.log \o g0.cw.log])
  /\ CommitCreatures(g0.cw)
  /\ scheduler' = g0.scheduler
  /\ player' = g0.player
  /\ tradeItems' = g0.tradeItems

\* the client's request to move the thing at fromPos to toPos
PlayerMoveThing(playerId, fromPos, spriteId, toPos, met) ==
  /\ CommitGame(playerMoveThing(GameWorld, playerId, fromPos, spriteId, toPos,
                                1, met))
  /\ last' = Call("playerMoveThing", NoItem, "NOERROR")
  /\ UNCHANGED <<redirect, lastBucket, creatureTile, catalogue>>

\* the game when the scheduler took the task of a slot to run it
Taken(slot) == [GameWorld EXCEPT !.scheduler[slot] = NoTask]

\* the scheduler calls the closure of a task
runTask(g, task, met) ==
  IF task.f = "playerMoveCreatureByID"
  THEN playerMoveCreatureByID(g, task.playerID, task.creatureID,
                              task.fromPos, task.toPos, met)
  ELSE playerMoveItemByPlayerID(g, task.playerID, task.fromPos,
                                task.spriteId, task.toPos, task.count, met)

\* the scheduler runs the player's next action task or next walk task
RunTask(slot, met) ==
  /\ scheduler[slot] # NoTask
  /\ CommitGame(runTask(Taken(slot), scheduler[slot], met))
  /\ last' = Call(scheduler[slot].f, NoItem, "NOERROR")
  /\ UNCHANGED <<redirect, lastBucket, creatureTile, catalogue>>

\* a script takes money out of a holder
RemoveMoney(h, money) ==
  /\ Quiet
  /\ h \in LiveHolders
  /\ LET r == removeMoney(World, h, money, FALSE)
     IN  /\ r.ok
         /\ Commit(r.w)
         /\ last' = Call("removeMoney", NoItem,
                         IF r.ret THEN "TRUE" ELSE "FALSE")
  /\ UNCHANGED <<redirect, scheduler, tradeVars, lastBucket, creatureTile,
                 creatureVars, catalogue>>

\* the scheduler's walk event of a creature
CheckCreatureWalk(creatureId, isDead, direction) ==
  /\ CommitGame(checkCreatureWalk(GameWorld, lastBucket, creatureId, isDead,
                                  direction))
  /\ last' = Call("checkCreatureWalk", NoItem, "NOERROR")
  /\ UNCHANGED <<redirect, lastBucket, creatureTile, catalogue>>

\* internalGetThing finds for a player what lies on the map or what the
\* player carries, never what another player carries
Carried(p, i) == Placed(i) /\ inChain(World, item[i].parent, Hand[p])
LiesOnMap(i) ==
  Placed(i) /\ \E t \in Tiles : inChain(World, item[i].parent, t)
InReach(p, i) ==
  IF i = NoItem THEN TRUE ELSE IF LiesOnMap(i) THEN TRUE ELSE Carried(p, i)

\* the arguments of a call of playerRequestTrade: i is the thing at pos and
\* stackPos
Ask(playerId, i, tradePlayerId, spriteId, reach) ==
  [playerId |-> playerId, i |-> i, tradePlayerId |-> tradePlayerId,
   spriteId |-> spriteId, reach |-> reach]

PlayerRequestTrade(c) ==
  /\ Quiet
  /\ IF getTraderByID(c.playerId) = NoPlayer THEN TRUE
     ELSE InReach(getTraderByID(c.playerId), c.i)
  /\ CommitGame(playerRequestTrade(GameWorld, c.playerId, c.i,
                                   c.tradePlayerId, c.spriteId, c.reach))
  /\ last' = Call("playerRequestTrade", NoItem, "NOERROR")
  /\ UNCHANGED <<redirect, lastBucket, creatureTile, catalogue>>

PlayerAcceptTrade(playerId, consent, reenter) ==
  /\ Quiet
  /\ CommitGame(playerAcceptTrade(GameWorld, playerId, consent, reenter))
  /\ last' = Call("playerAcceptTrade", NoItem,
                  IF reenter THEN "REENTERED" ELSE "NOERROR")
  /\ UNCHANGED <<redirect, lastBucket, creatureTile, catalogue>>

PlayerCloseTrade(playerId) ==
  /\ Quiet
  /\ CommitGame(playerCloseTrade(GameWorld, playerId))
  /\ last' = Call("playerCloseTrade", NoItem, "NOERROR")
  /\ UNCHANGED <<redirect, lastBucket, creatureTile, catalogue>>

\* the hooks of a call: actorPlayer && fromPos && toPos, and what
\* eventPlayerOnMoveItem answers for the item and for the exchanged item
Hooks ==
  {[player |-> FALSE, veto |-> FALSE, veto2 |-> FALSE],
   [player |-> TRUE, veto |-> FALSE, veto2 |-> FALSE],
   [player |-> TRUE, veto |-> TRUE, veto2 |-> FALSE],
   [player |-> TRUE, veto |-> FALSE, veto2 |-> TRUE]}

PlacedItems == {i \in Items : Placed(i)}
\* the counts a caller asks to move: a part of a stack or all of it
MoveCounts(i) == {20, item[i].count}

(***************************************************************************)
(* Spec: stacks of coins between a tile and a bag.                         *)
(***************************************************************************)
StackHolders == {"T3", "i3"}
StackMoves ==
  UNION {{Args(i, h, INDEX_WHEREEVER, n, FALSE, NoHooks, NoItem) :
            h \in StackHolders, n \in MoveCounts(i)} : i \in PlacedItems}

Init == InitWith(StackCatalogue, RedirectChain)

Next ==
  \/ \E i \in Items, h \in StackHolders :
       AddItem(i, h, INDEX_WHEREEVER, FALSE)
  \/ \E c \in StackMoves : MoveItem(c)
  \/ \E i \in Items : RemoveItem(i, -1, FALSE)
  \/ \E i \in Items : TransformItem(i, item[i].id, 0)
  \/ Cleanup

Spec == Init /\ [][Next]_vars

(***************************************************************************)
(* SpecExchange: single items between a tile, a chest and the equipment    *)
(* slot, moved by a player (the move hooks run) or by the server.          *)
(***************************************************************************)
ExchangeHolders == {"T3", "S1", "i3"}
ExchangeMoves ==
  {Args(i, h, index, 1, FALSE, ev, tradeItem) :
     i \in PlacedItems, h \in ExchangeHolders, index \in {INDEX_WHEREEVER, 0},
     ev \in Hooks, tradeItem \in {NoItem, "i3"}}

InitExchange == InitWith(ExchangeCatalogue, RedirectChain)

NextExchange ==
  \/ \E i \in Items, h \in ExchangeHolders :
       AddItem(i, h, INDEX_WHEREEVER, FALSE)
  \/ \E c \in ExchangeMoves : MoveItem(c)
  \/ \E i \in Items : RemoveItem(i, -1, FALSE)
  \/ Cleanup

SpecExchange == InitExchange /\ [][NextExchange]_vars

(***************************************************************************)
(* SpecDest: tiles that redirect, in a chain or in a cycle.                *)
(***************************************************************************)
DestMoves ==
  {Args(i, h, INDEX_WHEREEVER, item[i].count, flags, NoHooks, NoItem) :
     i \in PlacedItems, h \in Tiles, flags \in BOOLEAN}
CreatureMoves == Tiles \X (0..1) \X Tiles

InitDest ==
  \E red \in {RedirectChain, RedirectCycle} : InitWith(DestCatalogue, red)

NextDest ==
  \/ \E i \in Items, h \in Tiles : AddItem(i, h, INDEX_WHEREEVER, FALSE)
  \/ \E c \in DestMoves : MoveItem(c)
  \/ \E i \in Items : RemoveItem(i, -1, FALSE)
  \/ \E m \in CreatureMoves : MoveCreature(m[1], m[2], m[3])
  \/ Cleanup

SpecDest == InitDest /\ [][NextDest]_vars

(***************************************************************************)
(* SpecDecay: perishable items on a tile and the decay scheduler.          *)
(***************************************************************************)
InitDecay ==
  \E t \in {"torch", "field"}, d \in Durations :
    InitWith(DecayCatalogue(t, d), RedirectChain)

NextDecay ==
  \/ \E i \in Items : AddItem(i, "T3", INDEX_WHEREEVER, FALSE)
  \/ \E i \in Items : StartDecay(i)
  \/ \E i \in Items : TransformItem(i, "ember", -1)
  \/ \E i \in Items : RemoveItem(i, -1, FALSE)
  \/ CheckDecay
  \/ Cleanup

SpecDecay == InitDecay /\ [][NextDecay]_vars

(***************************************************************************)
(* SpecMerge: a stack of 80 and a stack of 60 of the same item, a tile and *)
(* a container that is a bag (no place left beside the stack) or a chest.  *)
(***************************************************************************)
MergeCatalogue(t) ==
  [i \in Items |-> CASE i = "i1" -> Kind("coin", 80, 0)
                     [] i = "i2" -> Kind("coin", 60, 0)
                     [] i = "i3" -> Kind(t, 1, 0)
                     [] OTHER -> NoKind]
MergeMoves ==
  UNION {{Args(i, h, INDEX_WHEREEVER, n, FALSE, NoHooks, NoItem) :
            h \in StackHolders, n \in {50, item[i].count}} :
         i \in PlacedItems}

InitMerge ==
  \E t \in {"bag", "chest"} : InitWith(MergeCatalogue(t), RedirectChain)

NextMerge ==
  \/ \E i \in Items, h \in StackHolders :
       AddItem(i, h, INDEX_WHEREEVER, FALSE)
  \/ \E c \in MergeMoves : MoveItem(c)
  \/ Cleanup

SpecMerge == InitMerge /\ [][NextMerge]_vars

(***************************************************************************)
(* SpecRound: an item is moved to another holder and back.  The world has  *)
(* the tile, the equipment slot and a chest, with single items or with a   *)
(* stack of coins.                                                         *)
(***************************************************************************)
PurseCatalogue ==
  [i \in Items |-> CASE i = "i1" -> Kind("coin", 60, 0)
                     [] i = "i2" -> Kind("chest", 1, 0)
                     [] OTHER -> NoKind]
RoundHolders == {"T3", "S1", "i2", "i3"}
RoundCounts(i) == IF isStackable(World, i) THEN MoveCounts(i) ELSE {1}
RoundMoves ==
  UNION {{Args(i, h, index, n, FALSE, NoHooks, NoItem) :
            h \in RoundHolders, index \in {INDEX_WHEREEVER, 0},
            n \in RoundCounts(i)} : i \in PlacedItems}

InitRound ==
  \E cat \in {ExchangeCatalogue, PurseCatalogue} :
    InitWith(cat, RedirectChain)

NextRound ==
  \/ \E i \in Items, h \in RoundHolders :
       AddItem(i, h, INDEX_WHEREEVER, FALSE)
  \/ \E c \in RoundMoves : MoveItem(c)
  \/ Cleanup

SpecRound == InitRound /\ [][NextRound]_vars

(***************************************************************************)
(* SpecTest: addItem and removeItem with and without the test flag, on a   *)
(* tile, the slot and a bag with one place.                                *)
(***************************************************************************)
TestCatalogue ==
  [i \in Items |-> CASE i = "i1" -> Kind("sword", 1, 0)
                     [] i = "i2" -> Kind("coin", 60, 0)
                     [] i = "i3" -> Kind("bag", 1, 0)
                     [] OTHER -> NoKind]
TestHolders == {"T3", "S1", "i3"}
\* the whole item, a part of a stack, more than a stack has
TestCounts == {-1, 20, 70}

InitTest == InitWith(TestCatalogue, RedirectChain)

NextTest ==
  \/ \E i \in Items, h \in TestHolders :
       AddItem(i, h, INDEX_WHEREEVER, FALSE)
  \/ \E i \in Items, h \in TestHolders, index \in {INDEX_WHEREEVER, 0},
        flags \in BOOLEAN : TestAddItem(i, h, index, flags)
  \/ \E i \in Items, n \in TestCounts : TestRemoveItem(i, n)
  \/ \E i \in Items, n \in TestCounts : RemoveItem(i, n, FALSE)
  \/ Cleanup

SpecTest == InitTest /\ [][NextTest]_vars

(***************************************************************************)
(* SpecTransform: items on a tile transformed into types that are          *)
(* stackable or not, always on top or not, of the same or another item     *)
(* type, or into an id that has no type.                                   *)
(***************************************************************************)
TransformCatalogue ==
  [i \in Items |-> CASE i = "i1" -> Kind("coin", 60, 0)
                     [] i = "i2" -> Kind("sword", 1, 0)
                     [] OTHER -> NoKind]
TransformIds == {"gem", "sword", "moss", "bag", "invalid"}
\* -1 keeps the count
TransformCounts == {-1, 0, 30}

InitTransform == InitWith(TransformCatalogue, RedirectChain)

NextTransform ==
  \/ \E i \in Items : AddItem(i, "T3", INDEX_WHEREEVER, FALSE)
  \/ \E i \in Items, newId \in TransformIds, newCount \in TransformCounts :
       TransformItem(i, newId, newCount)
  \/ Cleanup

SpecTransform == InitTransform /\ [][NextTransform]_vars

(***************************************************************************)
(* SpecStep: the player and one monster placed on the map and stepped by   *)
(* direction, with and without floor changes.                              *)
(***************************************************************************)
RedirectNone == [t \in Tiles |-> t]
Steppers == {"c1", "c2"}

InitStep ==
  \E red \in {RedirectNone, RedirectChain} : InitWith(DestCatalogue, red)

NextStep ==
  \/ \E c \in Steppers, p \in PlacePositions, extendedPos \in BOOLEAN,
        forced \in BOOLEAN, t \in Tiles \cup {NoHolder},
        b \in CreatureBuckets :
       PlaceCreature(c, p, extendedPos, forced, t, b)
  \/ \E c \in Steppers, direction \in Directions, flags \in BOOLEAN :
       MoveCreatureDir(c, direction, flags)

SpecStep == InitStep /\ [][NextStep]_vars

(***************************************************************************)
(* SpecCreature: a player and two summons, one of the other, placed on the *)
(* map and removed; the check list and the release list are served.        *)
(***************************************************************************)
InitCreature == InitWith(DestCatalogue, RedirectNone)

NextCreature ==
  \/ \E c \in Creatures, p \in PlacePositions, extendedPos \in BOOLEAN,
        forced \in BOOLEAN, t \in Tiles \cup {NoHolder},
        b \in CreatureBuckets :
       PlaceCreature(c, p, extendedPos, forced, t, b)
  \/ \E c \in Creatures : RemoveCreature(c)
  \/ \E index \in CreatureBuckets : CheckCreatures(index)
  \/ Cleanup

SpecCreature == InitCreature /\ [][NextCreature]_vars

(***************************************************************************)
(* SpecTrade: a sword and a bag moved between a tile, the slot, the bag    *)
(* and a chest, while the chest is the item of a trade.                    *)
(***************************************************************************)
TradeCatalogue ==
  [i \in Items |-> CASE i = "i1" -> Kind("sword", 1, 0)
                     [] i = "i2" -> Kind("bag", 1, 0)
                     [] i = "i3" -> Kind("chest", 1, 0)
                     [] OTHER -> NoKind]
TradeHolders == {"T3", "S1", "i2", "i3"}
TradeMoves ==
  {Args(i, h, index, 1, FALSE, ev, tradeItem) :
     i \in PlacedItems \ {"i3"}, h \in TradeHolders,
     index \in {INDEX_WHEREEVER, 0}, ev \in Hooks, tradeItem \in {NoItem, "i3"}}

InitTrade == InitWith(TradeCatalogue, RedirectChain)

NextTrade ==
  \/ \E i \in Items, h \in TradeHolders :
       AddItem(i, h, INDEX_WHEREEVER, FALSE)
  \/ \E c \in TradeMoves : MoveItem(c)

SpecTrade == InitTrade /\ [][NextTrade]_vars

(***************************************************************************)
(* SpecPerish: two stacks of a perishable stackable item moved, whole or   *)
(* in part, between a tile and a container, by a player or by a script.    *)
(***************************************************************************)
PerishCatalogue ==
  [i \in Items |-> CASE i = "i1" -> Kind("spore", 100, 0)
                     [] i = "i2" -> Kind("spore", 50, 0)
                     [] i = "i3" -> Kind("bag", 1, 0)
                     [] OTHER -> NoKind]
PerishHolders == {"T3", "i3"}
PerishMoves ==
  UNION {{Args(i, h, INDEX_WHEREEVER, n, FALSE, ev, NoItem) :
            h \in PerishHolders, n \in {50, item[i].count},
            ev \in {e \in Hooks : ~e.veto2}} : i \in PlacedItems}

InitPerish == InitWith(PerishCatalogue, RedirectChain)

NextPerish ==
  \/ \E i \in Items : AddItem(i, "T3", INDEX_WHEREEVER, FALSE)
  \/ \E c \in PerishMoves : MoveItem(c)
  \/ Cleanup

SpecPerish == InitPerish /\ [][NextPerish]_vars

(***************************************************************************)
(* SpecRetry: a player and its summon on the map, a sword on a tile; the   *)
(* player asks to push the summon or to move the sword, the requests are   *)
(* delayed, and creatures leave the world before the retries run.          *)
(***************************************************************************)
RetryCatalogue ==
  [i \in Items |-> IF i = "i1" THEN Kind("sword", 1, 0) ELSE NoKind]
\* the player enters at T1, its summon beside it or on the upper level
RetryPositions(c) == IF c = "c1" THEN {Pos["T1"]} ELSE {Pos["T2"], Pos["T3"]}
\* where the client drops things: T2 or a position without a tile
RetryTargets == {Pos["T2"], Position(4, 0, 6)}
TaskSlots == {"action", "walk"}
Mets == {Met(FALSE, FALSE, FALSE), Met(TRUE, FALSE, FALSE),
         Met(TRUE, TRUE, FALSE), Met(TRUE, TRUE, TRUE)}

InitRetry == InitWith(RetryCatalogue, RedirectNone)

NextRetry ==
  \/ \E h \in {"T1", "T2"} : AddItem("i1", h, INDEX_WHEREEVER, FALSE)
  \/ \E c \in Steppers, t \in Tiles \cup {NoHolder} :
       \E p \in RetryPositions(c) : PlaceCreature(c, p, FALSE, FALSE, t, 0)
  \/ \E c \in Steppers : RemoveCreature(c)
  \/ \E fromPos \in PlacePositions, toPos \in RetryTargets, met \in Mets :
       PlayerMoveThing(autoID("c1"), fromPos, "sword", toPos, met)
  \/ \E slot \in TaskSlots, met \in Mets : RunTask(slot, met)
  \/ Cleanup

SpecRetry == InitRetry /\ [][NextRetry]_vars

(***************************************************************************)
(* SpecRelease: a torch that burns down on a tile and a player on the map; *)
(* the item and the player are removed between the ticks that end with     *)
(* cleanup().                                                              *)
(***************************************************************************)
ReleaseCatalogue ==
  [i \in Items |-> IF i = "i1" THEN Kind("torch", 1, Rotation) ELSE NoKind]
WalkDirections == {"NONE", "EAST"}

InitRelease == InitWith(ReleaseCatalogue, RedirectNone)

NextRelease ==
  \/ AddItem("i1", "T3", INDEX_WHEREEVER, FALSE)
  \/ \E i \in Items : RemoveItem(i, -1, FALSE)
  \/ CheckDecay
  \/ \E t \in Tiles \cup {NoHolder}, b \in CreatureBuckets :
       PlaceCreature("c1", Pos["T1"], FALSE, FALSE, t, b)
  \/ RemoveCreature("c1")
  \/ \E index \in CreatureBuckets : CheckCreatures(index)
  \/ \E isDead \in BOOLEAN, direction \in WalkDirections :
       CheckCreatureWalk(autoID("c1"), isDead, direction)
  \/ Cleanup

SpecRelease == InitRelease /\ [][NextRelease]_vars

(***************************************************************************)
(* SpecThink: a player and its summon enter the map and leave it while the *)
(* checkCreatures ticks go round the check lists.  SpecThinkFair: every    *)
(* tick reschedules the tick of the next list (line 3670), so the tick of  *)
(* each list comes again and again.                                        *)
(***************************************************************************)
NextThink ==
  \/ \E c \in Steppers, p \in PlacePositions, t \in Tiles \cup {NoHolder},
        b \in CreatureBuckets :
       PlaceCreature(c, p, FALSE, FALSE, t, b)
  \/ \E c \in Steppers : RemoveCreature(c)
  \/ \E index \in CreatureBuckets : CheckCreatures(index)

SpecThink == InitCreature /\ [][NextThink]_vars

SpecThinkFair ==
  SpecThink /\ \A index \in CreatureBuckets : WF_vars(CheckCreatures(index))

(***************************************************************************)
(* SpecCheck: the player and its summon enter and leave, and are put on    *)
(* and taken off the creature check in any order between the ticks.        *)
(***************************************************************************)
NextCheck ==
  \/ \E c \in Steppers, t \in Tiles \cup {NoHolder}, b \in CreatureBuckets :
       PlaceCreature(c, Pos["T1"], FALSE, FALSE, t, b)
  \/ \E c \in Steppers : RemoveCreature(c)
  \/ \E c \in Steppers, b \in CreatureBuckets : AddCreatureCheck(c, b)
  \/ \E c \in Steppers : RemoveCreatureCheck(c)
  \/ \E index \in CreatureBuckets : CheckCreatures(index)

SpecCheck == InitCreature /\ [][NextCheck]_vars

(***************************************************************************)
(* SpecBarter: three players; a bag, an anvil and a chest are handed to    *)
(* the first two or put on a tile, and offered, accepted and withdrawn in  *)
(* any order between the ticks that end with cleanup().                    *)
(***************************************************************************)
BarterCatalogue ==
  [i \in Items |-> CASE i = "i1" -> Kind("bag", 1, 0)
                     [] i = "i2" -> Kind("anvil", 1, 0)
                     [] i = "i3" -> Kind("sword", 1, 0)
                     [] OTHER -> NoKind]
\* where a script puts the items: the bag in the first player's hand or on
\* the map, the sword on the map or in the bag, the anvil on the map
BarterHolders(i) ==
  CASE i = "i1" -> {"T3", "S1"} [] i = "i3" -> {"T3", "i1"} [] OTHER -> {"T3"}
\* the ids a client sends: the players' and one that no player has
PlayerIDs == {getID(p) : p \in Players} \cup {0}
\* the players that offer; the third is only asked
Offerers == {getID("p1"), getID("p2")}
ReachOK == Reach(TRUE, TRUE, "same", TRUE, FALSE, FALSE)
Reaches ==
  {ReachOK,
   Reach(FALSE, TRUE, "same", TRUE, FALSE, FALSE),
   Reach(TRUE, FALSE, "same", TRUE, FALSE, FALSE),
   Reach(TRUE, TRUE, "above", TRUE, FALSE, FALSE),
   Reach(TRUE, TRUE, "same", FALSE, TRUE, FALSE),
   Reach(TRUE, TRUE, "same", TRUE, FALSE, TRUE)}
\* a request of a placed item that meets everything, and the first
\* player's requests that fail on one thing
Requests ==
  {Ask(playerId, i, tradePlayerId, item[i].id, ReachOK) :
     playerId \in Offerers, i \in {x \in Items : Placed(x)},
     tradePlayerId \in PlayerIDs}
    \cup {Ask(getID("p1"), "i1", getID("p2"), item["i1"].id, reach) :
            reach \in Reaches}
    \cup {Ask(getID("p1"), "i1", getID("p2"), "sword", ReachOK),
          Ask(getID("p1"), NoItem, getID("p2"), "bag", ReachOK),
          Ask(0, NoItem, getID("p2"), "bag", ReachOK)}
Consents == {Consent(TRUE, FALSE), Consent(FALSE, FALSE), Consent(TRUE, TRUE)}

InitBarter == InitWith(BarterCatalogue, RedirectNone)

NextBarter ==
  \/ \E i \in Items : \E h \in BarterHolders(i) :
       AddItem(i, h, INDEX_WHEREEVER, FALSE)
  \/ \E c \in Requests : PlayerRequestTrade(c)
  \/ \E playerId \in PlayerIDs, consent \in Consents, reenter \in BOOLEAN :
       PlayerAcceptTrade(playerId, consent, reenter)
  \/ \E playerId \in PlayerIDs : PlayerCloseTrade(playerId)
  \/ Cleanup

SpecBarter == InitBarter /\ [][NextBarter]_vars

(***************************************************************************)
(* SpecMoney: a stack of coins, a gem worth fifty coins and a bag on a     *)
(* tile or in the bag; scripts take money out of the tile or the bag.      *)
(***************************************************************************)
MoneyCatalogue ==
  [i \in Items |-> CASE i = "i1" -> Kind("coin", 90, 0)
                     [] i = "i2" -> Kind("gem", 1, 0)
                     [] i = "i3" -> Kind("bag", 1, 0)
                     [] OTHER -> NoKind]
MoneyHolders == {"T3", "i3"}
Amounts == {20, 30, 50, 70, 120, 141}

InitMoney == InitWith(MoneyCatalogue, RedirectNone)

NextMoney ==
  \/ \E i \in Items, h \in MoneyHolders :
       AddItem(i, h, INDEX_WHEREEVER, FALSE)
  \/ \E h \in MoneyHolders, money \in Amounts : RemoveMoney(h, money)
  \/ Cleanup

SpecMoney == InitMoney /\ [][NextMoney]_vars

(***************************************************************************)
(* SpecSwap: a player beside a tile with swords and a gem; the player asks *)
(* to move the sword i1, the request is delayed, and before the retry runs *)
(* items are added to the tile, moved away from it or removed.             *)
(***************************************************************************)
SwapCatalogue ==
  [i \in Items |-> CASE i = "i1" -> Kind("sword", 1, 0)
                     [] i = "i2" -> Kind("sword", 1, 0)
                     [] i = "i3" -> Kind("gem", 1, 0)
                     [] OTHER -> NoKind]
SwapMoves ==
  {Args(i, "T3", INDEX_WHEREEVER, 1, FALSE, NoHooks, NoItem) :
     i \in {j \in Items : Placed(j) /\ item[j].parent = "T2"}}
\* where the client drops the sword: at the player's feet or at a position
\* without a tile
SwapTargets == {Pos["T1"], Position(4, 0, 6)}
\* the client asks for the item it sees on top of the tile: the sword i1
AskMoveSword(toPos, met) ==
  /\ internalGetThing(GameWorld, Pos["T2"]).item = "i1"
  /\ PlayerMoveThing(autoID("c1"), Pos["T2"], "sword", toPos, met)

InitSwap == InitWith(SwapCatalogue, RedirectNone)

NextSwap ==
  \/ \E i \in Items : AddItem(i, "T2", INDEX_WHEREEVER, FALSE)
  \/ \E t \in Tiles \cup {NoHolder} :
       PlaceCreature("c1", Pos["T1"], FALSE, FALSE, t, 0)
  \/ \E toPos \in SwapTargets, met \in Mets : AskMoveSword(toPos, met)
  \/ \E c \in SwapMoves : MoveItem(c)
  \/ \E i \in Items : RemoveItem(i, 1, FALSE)
  \/ \E slot \in TaskSlots, met \in Mets : RunTask(slot, met)
  \/ Cleanup

SpecSwap == InitSwap /\ [][NextSwap]_vars

(***************************************************************************)
(* Properties.                                                             *)
(***************************************************************************)
\* the holders whose child list has item i, and how often they have it
HoldersOf(i) == {h \in Holders : Count(contents[h], i) > 0}
Occurrences(i) ==
  LET occ[hs \in SUBSET Holders] ==
        IF hs = {} THEN 0
        ELSE LET h == CHOOSE x \in hs : TRUE
             IN  Count(contents[h], i) + occ[hs \ {h}]
  IN  occ[HoldersOf(i)]
\* removed and waiting for its destruction: queued for release, or kept by
\* the decay scheduler until its bucket's turn
PendingDestruction(i) ==
  \/ Count(ToReleaseItems, i) > 0
  \/ Count(toDecayItems, i) > 0
  \/ \E b \in Buckets : Count(decayItems[b], i) > 0

\* C1: every existing item is in exactly one holder, which is its parent, or
\* it is removed and pending destruction; no item is in two holders and no
\* item that is not pending destruction is in no holder.
SingleOwnership ==
  \A i \in Items :
    item[i].id # NoType =>
      /\ Occurrences(i) <= 1
      /\ \A h \in HoldersOf(i) : item[i].parent = h
      /\ HoldersOf(i) = {} => PendingDestruction(i)

Logged(e) == \E k \in 1..Len(log) : log[k] = e
\* the stacks of holder h in world w all have a count within 1..StackSize
StacksInRange(w, h) ==
  \A k \in 1..Len(w.contents[h]) :
    isStackable(w, w.contents[h][k]) =>
      w.item[w.contents[h][k]].count \in 1..StackSize

\* C2: a committed moveItem of a stackable item with m units moved takes
\* exactly m units from the source stack (the source item is removed when it
\* reaches 0), the growth of the destination stack plus the count of the
\* remainder clone is exactly m, and afterwards every stack of the source
\* and destination holders has a count within 1..StackSize.
StackConservation ==
  \A c \in StackMoves :
    LET r == moveOf(c)
        from == item[c.i].parent
        grown == IF r.updateItem = NoItem THEN 0
                 ELSE r.w.item[r.updateItem].count - item[r.updateItem].count
        cloned == IF r.moveItem = NoItem THEN 0
                  ELSE r.w.item[r.moveItem].count
    IN  (isStackable(World, c.i) /\ r.ok /\ r.committed) =>
          /\ IF r.m = item[c.i].count
             THEN getThingIndex(r.w, from, c.i) = -1 /\ isRemoved(r.w, c.i)
             ELSE /\ r.w.item[c.i].count = item[c.i].count - r.m
                  /\ getThingIndex(r.w, from, c.i) # -1
          /\ grown + cloned = r.m
          /\ r.moveItem # NoItem => getThingIndex(r.w, r.to, r.moveItem) # -1
          /\ StacksInRange(r.w, from)
          /\ StacksInRange(r.w, r.to)

\* a moveItem merged units into a stack, filling it, and added the rest as a
\* clone
StackSplitDone ==
  /\ last.op = "moveItem"
  /\ last.ret = "NOERROR"
  /\ \E h \in Holders, a \in Items, b \in Items :
       /\ a # b
       /\ Logged(<<"updateThing", h, a>>)
       /\ Logged(<<"addThing", h, b>>)
       /\ item[a].count = StackSize
       /\ isStackable(World, b)

\* the reciprocal move of an exchange failed: the source's queryAdd for the
\* colliding item, its queryMaxCount, the destination's queryRemove of the
\* colliding item, or the queryAdd asked again for the moved item
ExchangeFailed(r) ==
  \/ r.exch \in {"sourceAddFailed", "maxCountFailed", "removeFailed"}
  \/ r.exch = "done" /\ r.recheck # "NOERROR"

\* C3: when the destination's queryAdd reports needs-exchange and the
\* reciprocal move of the colliding item fails at any point, moveItem
\* returns a failure and the contents of the source holder and of the
\* destination holder are unchanged.
ExchangeAtomicity ==
  \A c \in ExchangeMoves :
    LET r == moveOf(c)
        from == item[c.i].parent
    IN  ExchangeFailed(r) =>
          /\ r.ret # "NOERROR"
          /\ r.w.contents[from] = contents[from]
          /\ r.w.contents[r.to] = contents[r.to]

\* C4: a moveItem whose resolved destination occupant is the moved item
\* itself returns success, changes no holder or item state, and fires no
\* postAddNotification, no postRemoveNotification and no item-moved hook.
NoOpMove ==
  \A c \in ExchangeMoves :
    LET r == moveOf(c)
    IN  r.toItem = c.i =>
          /\ r.ret = "NOERROR"
          /\ r.w.item = item
          /\ r.w.contents = contents
          /\ r.w.decayItems = decayItems
          /\ r.w.toDecayItems = toDecayItems
          /\ r.w.ToReleaseItems = ToReleaseItems
          /\ \A k \in 1..Len(r.w.log) :
               r.w.log[k][1] \notin {"postAdd", "postRemove", "onItemMoved"}

\* a player moved an item onto itself: the call succeeded and all it fired
\* is the before-move hook
NoOpMoveDone ==
  /\ last.op = "moveItem"
  /\ last.ret = "NOERROR"
  /\ log = <<<<"onMoveItem", item[last.item].parent, last.item>>>>

PartialMoveReported ==
  \A c \in StackMoves :
    LET r == moveOf(c)
        from == item[c.i].parent
    IN  (isStackable(World, c.i) /\ r.ok /\ r.committed /\ r.m < c.count) =>
          /\ r.ret = queryMaxCount(World, r.to, r.index, c.i, c.count,
                                   FALSE).ret
          /\ r.ret # "NOERROR"
          /\ r.m > 0
          /\ r.w.item[c.i].count = item[c.i].count - r.m

\* a moveItem moved a part of what was asked into the full bag and said so
PartialMoveDone ==
  /\ last.op = "moveItem"
  /\ last.ret = "CONTAINERNOTENOUGHROOM"
  /\ Logged(<<"removeThing", item[last.item].parent, last.item>>)
  /\ \E a \in Items : Logged(<<"updateThing", "i3", a>>)

\* C9: the destination-resolution loops of moveItem and of creature
\* movement stop after at most MAP_MAX_LAYERS redirects, whatever the
\* redirects of the holders are, a cycle included.
BoundedResolution ==
  /\ \A c \in DestMoves : moveOf(c).redirects <= MAP_MAX_LAYERS
  /\ \A m \in CreatureMoves :
       internalMoveCreature(m[1], m[2], m[3]).n <= MAP_MAX_LAYERS

\* on the map whose floor changes form a cycle, an item was moved and both
\* loops run into the bound
BoundReached ==
  /\ redirect = RedirectCycle
  /\ last.op = "moveItem"
  /\ \E c \in DestMoves : moveOf(c).redirects = MAP_MAX_LAYERS
  /\ \E m \in CreatureMoves :
       internalMoveCreature(m[1], m[2], m[3]).n = MAP_MAX_LAYERS

\* C10: a destination whose resolution has not stabilised when the depth
\* bound is reached is not used: moveItem performs no mutation into the
\* holder the loop stopped at.
UnstableNotUsed ==
  \A c \in DestMoves :
    LET r == moveOf(c)
    IN  ~r.stable => (~r.committed /\ r.w.contents = contents)

Ceil(a, b) == (a + b - 1) \div b

\* C7: an item enrolled with duration d is transformed or removed by the
\* checkDecay tick that is the ceil(d / EVENT_DECAYINTERVAL)-th after its
\* enrollment, and by no earlier tick.
DecayOnTime ==
  \A k \in 1..Len(log) :
    log[k][1] = "decay" => log[k][3] = Ceil(log[k][4], EVENT_DECAYINTERVAL)

\* how often item i is in the pending list and in the decay buckets
Enrollments(i) ==
  LET inBuckets[b \in -1..(EVENT_DECAY_BUCKETS - 1)] ==
        IF b = -1 THEN 0 ELSE Count(decayItems[b], i) + inBuckets[b - 1]
  IN  Count(toDecayItems, i) + inBuckets[EVENT_DECAY_BUCKETS - 1]

\* C8: every item enrolled for decay is in the pending list or in exactly
\* one decay bucket: never in two buckets, never twice in one bucket, never
\* both pending and in a bucket.
EnrolledOnce == \A i \in Items : Enrollments(i) <= 1

\* how many notifications of one kind holder h got in the log lg
Notified(lg, kind, h) ==
  Cardinality({k \in 1..Len(lg) : lg[k][1] = kind /\ lg[k][2] = h})

\* stack a of 80 lies outside container y, and stack b of 60 of the same item
\* is the only stack of y that a can join
MergeCase(a, b, y) ==
  /\ a # b /\ Placed(a) /\ Placed(b) /\ isContainer(World, y)
  /\ isStackable(World, a) /\ item[a].id = item[b].id
  /\ item[a].count = 80 /\ item[b].count = 60
  /\ item[b].parent = y /\ item[a].parent # y
  /\ FreeInStacks(World, y, a, 1) = StackSize - 60
MergeMove(a, y) ==
  moveOf(Args(a, y, INDEX_WHEREEVER, 50, FALSE, NoHooks, NoItem))

\* C11 as stated: moving 50 of a stack of 80 onto a stack of 60 in a bag
\* leaves the destination at 100 and the source at 30, creates no remainder
\* clone, and notifies source and destination holder once each.
MergeAsStated ==
  \A a \in Items, b \in Items, y \in Items :
    MergeCase(a, b, y) =>
      LET r == MergeMove(a, y)
      IN  r.ok =>
            /\ r.w.item[b].count = StackSize
            /\ r.w.item[a].count = 30
            /\ r.moveItem = NoItem
            /\ Notified(r.w.log, "postRemove", item[a].parent) = 1
            /\ Notified(r.w.log, "postAdd", y) = 1

\* C11, amended: the destination stack becomes 100 and the source holder is
\* notified once.  When the container has a free place all 50 units leave
\* (source 30), the 10 the stack cannot take become a remainder clone in
\* the container, and the container is notified twice; when it has none,
\* 40 units leave (source 40), there is no clone, the container is notified
\* once and the outcome is queryMaxCount's.
MergeFillsDestination ==
  \A a \in Items, b \in Items, y \in Items :
    MergeCase(a, b, y) =>
      LET r == MergeMove(a, y)
      IN  r.ok =>
            /\ r.committed
            /\ r.w.item[b].count = StackSize
            /\ Notified(r.w.log, "postRemove", item[a].parent) = 1
            /\ IF Len(contents[y]) < Capacity(World, y)
               THEN /\ r.ret = "NOERROR"
                    /\ r.w.item[a].count = 30
                    /\ r.moveItem # NoItem
                    /\ r.w.item[r.moveItem].count = 10
                    /\ r.w.item[r.moveItem].parent = y
                    /\ Notified(r.w.log, "postAdd", y) = 2
               ELSE /\ r.ret = "CONTAINERNOTENOUGHROOM"
                    /\ r.w.item[a].count = 40
                    /\ r.moveItem = NoItem
                    /\ Notified(r.w.log, "postAdd", y) = 1

\* 50 of the 80 were moved into the chest: its stack is full, the source
\* has 30 and the chest has a new stack of 10
MergeWithRemainderDone ==
  /\ last.op = "moveItem"
  /\ last.ret = "NOERROR"
  /\ item[last.item].count = 30
  /\ \E b \in Items, c \in Items :
       /\ Logged(<<"updateThing", "i3", b>>) /\ item[b].count = StackSize
       /\ Logged(<<"addThing", "i3", c>>) /\ item[c].count = 10

\* the contents of holder h: the types and counts of its items, in order
View(w, h) ==
  [k \in 1..Len(w.contents[h]) |->
     <<w.item[w.contents[h][k]].id, w.item[w.contents[h][k]].count>>]

\* the item that arrived: a stackable item travels as a clone (line 1194)
Arrived(c, r) == IF isStackable(World, c.i) THEN r.moveItem ELSE c.i

\* the move back: from the holder reached to the source holder, at the
\* index the item had there
MoveBack(c, r) ==
  internalMoveItem(r.w, r.to, item[c.i].parent,
                   getThingIndex(World, item[c.i].parent, c.i), Arrived(c, r),
                   item[c.i].count, FALSE, NoHooks, NoItem)

FullMoves == {c \in RoundMoves : c.count = item[c.i].count}
Succeeded(r) == r.ok /\ r.committed /\ r.ret = "NOERROR"
\* a move that neither exchanged the item with an occupant nor met an equal
\* stack
Plain(r) == r.exch = "none" /\ r.updateItem = NoItem

\* C12 as stated: a successful moveItem of an item's full count from X to Y
\* followed by a successful moveItem of it back to its original index in X
\* leaves the contents of X and of Y as they were.
RoundTrip ==
  \A c \in FullMoves :
    LET r == moveOf(c)
    IN  (Succeeded(r) /\ Arrived(c, r) # NoItem) =>
          (Succeeded(MoveBack(c, r)) =>
             /\ View(MoveBack(c, r).w, item[c.i].parent)
                  = View(World, item[c.i].parent)
             /\ View(MoveBack(c, r).w, r.to) = View(World, r.to))

\* C12, amended: the contents of X and Y are as they were when neither
\* move exchanges the item with an occupant of its destination or meets an
\* equal stack there, and the move back ends in X itself.
PlainRoundTrip ==
  \A c \in FullMoves :
    LET r == moveOf(c)
    IN  (Succeeded(r) /\ Plain(r) /\ Arrived(c, r) # NoItem) =>
          ((/\ Succeeded(MoveBack(c, r)) /\ Plain(MoveBack(c, r))
            /\ MoveBack(c, r).to = item[c.i].parent) =>
             /\ View(MoveBack(c, r).w, item[c.i].parent)
                  = View(World, item[c.i].parent)
             /\ View(MoveBack(c, r).w, r.to) = View(World, r.to))

\* an item that lay under another item of the tile was moved into the chest
\* by a plain move, and the move back to its index is a plain one that puts
\* it under that item again
PlainRoundTripReady ==
  /\ last.op = "moveItem"
  /\ last.ret = "NOERROR"
  /\ contents["T3"] # <<>>
  /\ Logged(<<"removeThing", "T3", last.item>>)
  /\ \E a \in Items, y \in {"i2", "i3"} :
       /\ Logged(<<"addThing", y, a>>)
       /\ LET back == internalMoveItem(World, y, "T3", 1, a, item[a].count,
                                       FALSE, NoHooks, NoItem)
          IN  /\ Succeeded(back) /\ Plain(back) /\ back.to = "T3"
              /\ back.w.item[back.w.contents["T3"][2]].id = item[a].id
              /\ back.w.contents["T3"][1] = contents["T3"][1]

\* item i is in one of the decay buckets of world w
InBuckets(w, i) == \E b \in Buckets : Count(w.decayItems[b], i) > 0

\* C13: after removeItem removed an item completely while the item was in
\* a decay bucket, no decay bucket contains it, whichever bucket it was in.
DeEnrolledOnRemove ==
  \A i \in PlacedItems :
    LET r == internalRemoveItem(World, i, -1, FALSE)
    IN  (r.ret = "NOERROR" /\ isRemoved(r.w, i) /\ InBuckets(World, i)) =>
          ~InBuckets(r.w, i)

\* C14: addItem and removeItem called with test = true change nothing and
\* fire no notification, and they return what the call without the test
\* flag returns when its validation fails, and success when it passes.
TestChangesNothing ==
  /\ \A i \in PlacedItems, h \in TestHolders \cap LiveHolders,
        index \in {INDEX_WHEREEVER, 0}, flags \in BOOLEAN :
       LET t == internalAddItem(World, h, i, index, flags, TRUE)
           n == internalAddItem(World, h, i, index, flags, FALSE)
       IN  t.w = World /\ t.remainderCount = 0 /\ (n.ok => t.ret = n.ret)
  /\ \A new \in Items, h \in TestHolders \cap LiveHolders :
       (item[new].id = NoType /\ catalogue[new] # NoKind) =>
         LET t == internalAddItem(fresh(new), h, new, INDEX_WHEREEVER, FALSE,
                                  TRUE)
             n == internalAddItem(fresh(new), h, new, INDEX_WHEREEVER, FALSE,
                                  FALSE)
         IN  t.w = fresh(new) /\ t.remainderCount = 0
             /\ (n.ok => t.ret = n.ret)
  /\ \A i \in PlacedItems, cnt \in TestCounts :
       LET t == internalRemoveItem(World, i, cnt, TRUE)
           n == internalRemoveItem(World, i, cnt, FALSE)
       IN  t.w = World /\ t.ret = n.ret

\* a test told that the full bag would not take the sword, with the bag
\* and the sword in the world as they were
TestRefused ==
  /\ last.op = "testAddItem"
  /\ last.ret = "CONTAINERNOTENOUGHROOM"
  /\ log = <<>>
  /\ Placed(last.item)
  /\ Len(contents["i3"]) = Capacity(World, "i3")

RECURSIVE UnitsFrom(_, _, _, _)
\* the units of type t, of the items from position k of ItemSeq on, that
\* are in a holder of the trees under roots
UnitsFrom(w, roots, t, k) ==
  IF k > Len(ItemSeq) THEN 0
  ELSE (IF /\ w.item[ItemSeq[k]].id = t
           /\ \E h \in Holders :
                /\ getThingIndex(w, h, ItemSeq[k]) # -1
                /\ \E x \in roots : inChain(w, h, x)
        THEN w.item[ItemSeq[k]].count ELSE 0)
       + UnitsFrom(w, roots, t, k + 1)

SamePlace(r, i) ==
  /\ r.w.item[r.item].parent = item[i].parent
  /\ getThingIndex(r.w, item[i].parent, r.item)
       = getThingIndex(World, item[i].parent, i)

\* C16 as stated: an item that transformItem returns is in the holder and
\* at the index of the original, whatever the two types are; an id without
\* a type returns the original and changes nothing.
TransformKeepsIndex ==
  \A i \in PlacedItems, newId \in TransformIds,
     newCount \in TransformCounts :
    LET r == transformItem(World, i, newId, newCount)
    IN  r.ok =>
          /\ r.item # NoItem => SamePlace(r, i)
          /\ newId \notin TypeIds => r.item = i /\ r.w = World

\* C16: an item that transformItem returns is in the holder of the
\* original; it is at the original's index when the always-on-top flag of
\* the two types is the same (when it differs the holder's addThing places
\* it); an id without a type returns the original and changes nothing.
TransformKeepsHolder ==
  \A i \in PlacedItems, newId \in TransformIds,
     newCount \in TransformCounts :
    LET r == transformItem(World, i, newId, newCount)
    IN  r.ok =>
          /\ r.item # NoItem =>
                /\ r.w.item[r.item].parent = item[i].parent
                /\ getThingIndex(r.w, item[i].parent, r.item) # -1
                /\ (newId \in TypeIds
                    /\ ItemType[newId].alwaysOnTop
                         = ItemType[item[i].id].alwaysOnTop)
                     => SamePlace(r, i)
          /\ newId \notin TypeIds => r.item = i /\ r.w = World

\* a transformItem replaced an item that was not the first of its holder
\* by a new one, which is where the old one was
ReplacedBehindFirst ==
  /\ last.op = "transformItem"
  /\ \E h \in Holders, new \in Items :
       /\ Logged(<<"replaceThing", h, new>>)
       /\ Logged(<<"postRemove", h, last.item>>)
       /\ getThingIndex(World, h, new) >= 1
       /\ item[new].id # NoType

\* C17: transformItem with new count 0 on a stackable item takes the item
\* out of its holder and returns null, and after a transformItem no holder
\* has a stackable item of count 0.
ZeroCountRemoved ==
  \A i \in PlacedItems, newId \in TransformIds,
     newCount \in TransformCounts :
    LET r == transformItem(World, i, newId, newCount)
    IN  r.ok =>
          /\ (newCount = 0 /\ isStackable(World, i)) =>
                /\ r.item = NoItem
                /\ \A h \in Holders : getThingIndex(r.w, h, i) = -1
          /\ \A h \in Holders : \A k \in 1..Len(r.w.contents[h]) :
                isStackable(r.w, r.w.contents[h][k]) =>
                  r.w.item[r.w.contents[h][k]].count # 0

\* C18: a step by direction that fails, for want of a tile or because the
\* tile's queryAdd rejects, returns the failure and leaves the creature as
\* it was: holder, position, last position and direction.
FailedStepChangesNothing ==
  \A c \in Steppers, direction \in Directions, flags \in BOOLEAN :
    OnMap(c) =>
      LET r == internalMoveCreatureDir(CreatureWorld, c, direction, flags)
      IN  r.ret # "NOERROR" =>
            /\ r.cw.creature[c].parent = creature[c].parent
            /\ r.cw.creature[c].onTile = creature[c].onTile
            /\ getPosition(r.cw, c) = getPosition(CreatureWorld, c)
            /\ r.cw.creature[c].lastPosition = creature[c].lastPosition
            /\ r.cw.creature[c].direction = creature[c].direction

\* c is in the lists of the creature check exactly once
EnrolledForCheck(cw, c) ==
  /\ cw.creature[c].creatureCheck
  /\ cw.creature[c].inCheckCreaturesVector
  /\ \E b \in CreatureBuckets :
       /\ Count(cw.checkCreatureLists[b], c) = 1
       /\ \A o \in CreatureBuckets \ {b} :
            Count(cw.checkCreatureLists[o], c) = 0

\* C19: placeCreature succeeds only for a creature without a holder that
\* the map found a tile for; when it fails nothing changes; when it
\* succeeds the creature has a tile as its holder, an id, an entry in the
\* lookup table and a place in the check list.
PlaceAllOrNothing ==
  \A c \in Creatures, p \in PlacePositions, extendedPos \in BOOLEAN,
     forced \in BOOLEAN, t \in Tiles \cup {NoHolder},
     b \in CreatureBuckets :
    (\/ t \in placeTargets(CreatureWorld, c, p, extendedPos, forced)
     \/ (t = NoHolder
         /\ placeTargets(CreatureWorld, c, p, extendedPos, forced) = {})) =>
      LET r == placeCreature(CreatureWorld, c, t, b)
      IN  /\ r.ret =>
                /\ creature[c].parent = NoHolder
                /\ t \in Tiles
                /\ r.cw.creature[c].parent = t
                /\ r.cw.creature[c].onTile = t
                /\ ~r.cw.creature[c].removed
                /\ r.cw.creature[c].id # 0
                /\ r.cw.creature[c].listed
                /\ r.cw.creature[c].refs = creature[c].refs + 2
                /\ EnrolledForCheck(r.cw, c)
          /\ ~r.ret => r.cw = CreatureWorld

\* a summon was placed next to the position asked for, where its master
\* stands
PlacedBesideMaster ==
  /\ last.op = "placeCreature"
  /\ last.ret = "NOERROR"
  /\ last.item = "c2"
  /\ OnMap("c2") /\ OnMap("c1")
  /\ creature["c2"].onTile # creature["c1"].onTile
  /\ EnrolledForCheck(CreatureWorld, "c2")

\* c and the summons c owns, and those they own
OwnedBy(cw, c) ==
  {s \in Creatures :
     \/ s = c
     \/ Master[s] = c /\ cw.creature[s].parent # NoHolder
     \/ /\ Master[s] # NoCreature
        /\ Master[Master[s]] = c
        /\ cw.creature[s].parent # NoHolder
        /\ cw.creature[Master[s]].parent # NoHolder}

\* C20: after removeCreature(c) returned true, c and the summons it owns,
\* transitively, are removed, on no tile, out of the lookup table and the
\* creature check, and each that the call removed is in the release list
\* once; nothing is in the release list twice; a second removeCreature(c)
\* returns false and changes nothing.
RemovalIsComplete ==
  \A c \in Creatures :
    creature[c].parent # NoHolder =>
      LET r == removeCreature(CreatureWorld, c)
      IN  r.ret =>
            /\ \A s \in OwnedBy(CreatureWorld, c) :
                 /\ r.cw.creature[s].removed
                 /\ r.cw.creature[s].onTile = NoHolder
                 /\ ~r.cw.creature[s].listed
                 /\ ~r.cw.creature[s].creatureCheck
                 /\ ~creature[s].removed =>
                      Count(r.cw.ToReleaseCreatures, s) = 1
                 /\ creature[s].removed =>
                      r.cw.creature[s] = creature[s]
            /\ \A s \in Creatures : Count(r.cw.ToReleaseCreatures, s) <= 1
            /\ ~removeCreature(r.cw, c).ret
            /\ removeCreature(r.cw, c).cw = r.cw

\* the player was removed with its summon and the summon's summon
FamilyRemoved ==
  /\ last.op = "removeCreature"
  /\ last.ret = "NOERROR"
  /\ last.item = "c1"
  /\ \A c \in Creatures : creature[c].removed
  /\ \A c \in Creatures : Count(ToReleaseCreatures, c) = 1
  /\ Logged(<<"onRemoveCreature", "c3">>)

\* the moves with a trade item in the world
Escrowed == {c \in TradeMoves : c.tradeItem # NoItem /\ Placed(c.tradeItem)
                                /\ c.h \in LiveHolders}

\* the call left every holder and every item as it was
NothingMoved(r) == r.w.contents = contents /\ r.w.item = item

\* C21 as stated: with a trade item T, when T is the resolved destination
\* or one of its ancestors moveItem returns not-enough-room and no holder is
\* changed; the moved item is never inside T afterwards.
EscrowAlwaysNoRoom ==
  \A c \in Escrowed :
    LET r == moveOf(c)
    IN  r.ok =>
          /\ inChain(World, r.to, c.tradeItem) =>
                r.ret = "NOTENOUGHROOM" /\ NothingMoved(r)
          /\ r.committed =>
                ~inChain(r.w, r.w.item[c.i].parent, c.tradeItem)

\* the checks that come before the trade check let the move through
BeforeEscrow(c, r) ==
  /\ ~(c.ev.player /\ c.ev.veto)
  /\ ~sameAsSource(c.i, r.toItem)
  /\ r.exch = "none"
  /\ queryAdd(World, r.to, r.index, c.i, c.count, c.flags) = "NOERROR"
  /\ queryMaxCount(World, r.to, r.index, c.i, c.count, c.flags).ret
       = "NOERROR"
  /\ queryRemove(World, item[c.i].parent, c.i,
                 unitsToMove(World, c.i, c.count,
                             queryMaxCount(World, r.to, r.index, c.i,
                                           c.count, c.flags).max),
                 FALSE) = "NOERROR"

\* C21: with a trade item T, when T is the resolved destination or one of
\* its ancestors moveItem commits nothing and changes no holder; it
\* returns not-enough-room when the checks before the trade check pass,
\* and the outcome of the first of them that fails otherwise; the moved
\* item is never inside T after a move that committed.
EscrowRefuses ==
  \A c \in Escrowed :
    LET r == moveOf(c)
    IN  r.ok =>
          /\ inChain(World, r.to, c.tradeItem) =>
                /\ ~r.committed
                /\ NothingMoved(r)
                /\ BeforeEscrow(c, r) => r.ret = "NOTENOUGHROOM"
                /\ r.ret = "NOERROR" => sameAsSource(c.i, r.toItem)
          /\ r.committed =>
                ~inChain(r.w, r.w.item[c.i].parent, c.tradeItem)

\* a move into the bag that lies in the traded chest was refused
EscrowRefusedNested ==
  /\ last.op = "moveItem"
  /\ last.ret = "NOTENOUGHROOM"
  /\ item["i2"].parent = "i3"
  /\ item[last.item].parent \notin {"i2", "i3"}
  /\ Placed(last.item)

\* how often item i is in the pending list and in the decay buckets of w
EnrollmentsIn(w, i) ==
  LET inBuckets[b \in -1..(EVENT_DECAY_BUCKETS - 1)] ==
        IF b = -1 THEN 0 ELSE Count(w.decayItems[b], i) + inBuckets[b - 1]
  IN  Count(w.toDecayItems, i) + inBuckets[EVENT_DECAY_BUCKETS - 1]

\* the items the call put into the destination or merged into
Arrivals(r) == {r.moveItem, r.updateItem} \ {NoItem}

\* C22: after a moveItem that relocated at least one unit, a partial
\* transfer included, every item it put into the destination or merged into
\* that has a positive duration is enrolled for decay exactly once.
MovedIsEnrolled ==
  \A c \in PerishMoves :
    LET r == moveOf(c)
    IN  r.ok /\ r.committed =>
          \A i \in Arrivals(r) :
            ~isRemoved(r.w, i) /\ r.w.item[i].duration > 0 =>
              EnrollmentsIn(r.w, i) = 1

\* a partial transfer filled the stack in the bag, which is enrolled once
PartialEnrolled ==
  /\ last.op = "moveItem" /\ last.ret # "NOERROR"
  /\ \E j \in Items :
       /\ item[j].parent = "i3" /\ item[j].count = StackSize
       /\ Logged(<<"updateThing", "i3", j>>)
       /\ item[j].duration > 0 /\ Enrollments(j) = 1
  /\ Placed(last.item) /\ Enrollments(last.item) = 1

\* the places of log lg where the after-move hook ran
AfterMoveHooks(lg) == {k \in 1..Len(lg) : lg[k][1] = "onItemMoved"}

\* C23: for a player's move with positions, a before-move hook that does
\* not answer success makes moveItem return that answer with nothing changed
\* and no after-move hook; every moveItem that commits a relocation, full
\* or partial, runs the after-move hook exactly once, after all changes of
\* the holders.
HooksAroundMove ==
  \A c \in PerishMoves :
    LET r == moveOf(c)
    IN  c.ev.player /\ r.ok =>
          /\ c.ev.veto =>
                /\ r.ret = "NOTPOSSIBLE" /\ ~r.committed
                /\ NothingMoved(r)
                /\ AfterMoveHooks(r.w.log) = {}
          /\ r.committed => AfterMoveHooks(r.w.log) = {Len(r.w.log)}

\* the creature that was given the id left the world
Gone(id) == \E c \in Creatures : creature[c].id = id /\ creature[c].removed

\* C24: a retry (a delayed push of a creature or a delayed move of an
\* item) that runs after its player was removed from the world, or, for a
\* push, after the creature to push was removed, changes nothing and sends
\* no message.
RetryAfterRemoval ==
  \A slot \in TaskSlots, met \in Mets :
    LET task == scheduler[slot]
    IN  /\ task # NoTask
        /\ \/ Gone(task.playerID)
           \/ task.f = "playerMoveCreatureByID" /\ Gone(task.creatureID)
        => runTask(Taken(slot), task, met) = Taken(slot)

\* the retry of a push ran after the summon was removed, the player still
\* on the map
RetryFoundNoTarget ==
  /\ last.op = "playerMoveCreatureByID"
  /\ OnMap("c1") /\ creature["c2"].removed
  /\ scheduler = NoTasks
  /\ log = <<>>

\* the tiles around creature c imply a step up in the direction: its tile
\* has height 3, no tile is above it and a tile is above the destination
ElevationImplied(c, direction) ==
  /\ ~isDiagonal(direction)
  /\ hasHeight(creature[c].parent)
  /\ getTile(Above(getPosition(CreatureWorld, c))) = NoHolder
  /\ getTile(Above(getNextPosition(direction,
                                   getPosition(CreatureWorld, c)))) # NoHolder

\* C25: a non-diagonal step of any placed creature whose tiles imply a
\* step up goes to the destination one level up, whatever stands there, and
\* the creature faces the direction of the move; a diagonal step never
\* changes the level.
StepsUpWhenImplied ==
  \A c \in Steppers, direction \in Directions, flags \in BOOLEAN :
    OnMap(c) =>
      LET r == internalMoveCreatureDir(CreatureWorld, c, direction, flags)
          next == getNextPosition(direction, getPosition(CreatureWorld, c))
      IN  /\ ElevationImplied(c, direction) =>
                /\ r.ret = "NOERROR"
                /\ getPosition(r.cw, c) = Above(next)
                /\ r.cw.creature[c].direction = direction
          /\ isDiagonal(direction) =>
                getPosition(r.cw, c).z = getPosition(CreatureWorld, c).z

\* the places of log lg with entry e, with a notification, with a mutation
Places(lg, e) == {k \in 1..Len(lg) : lg[k] = e}
Notifications(lg) ==
  {k \in 1..Len(lg) : lg[k][1] \in {"postAdd", "postRemove"}}
Mutations(lg) ==
  {k \in 1..Len(lg) : lg[k][1] \in {"removeThing", "addThing", "updateThing"}}

OldLeavesBeforeNew ==
  \A i \in PlacedItems, newId \in TransformIds,
     newCount \in TransformCounts :
    LET r == transformItem(World, i, newId, newCount)
        h == item[i].parent
    IN  r.ok /\ r.item # NoItem /\ r.item # i
          /\ Places(r.w.log, <<"replaceThing", h, r.item>>) # {} =>
          /\ Places(r.w.log, <<"postRemove", h, i>>) # {}
          /\ Places(r.w.log, <<"postAdd", h, r.item>>) # {}
          /\ \A k \in Places(r.w.log, <<"postRemove", h, i>>),
                n \in Places(r.w.log, <<"postAdd", h, r.item>>) : k < n

\* C28: addItem resolves its destination as moveItem does, by asking
\* queryDestination until the answer is stable or the depth bound is
\* reached: an item added to holder h is inserted into the holder a move to
\* h would insert it into.
AddResolvesLikeMove ==
  \A new \in Items, h \in Tiles, flags \in BOOLEAN :
    item[new].id = NoType /\ catalogue[new] # NoKind =>
      LET a == addOf(new, h, INDEX_WHEREEVER, flags)
      IN  a.ok /\ a.ret = "NOERROR" =>
            a.w.item[new].parent
              = resolveDestination(fresh(new), h, INDEX_WHEREEVER, new,
                                   flags).h

\* the items the next checkDecay brings to duration zero: every entry of
\* the item in the bucket takes up to a rotation off its duration
Expiring ==
  {i \in Items :
     /\ Count(decayItems[(lastBucket + 1) % EVENT_DECAY_BUCKETS], i) > 0
     /\ canDecay(World, i)
     /\ item[i].duration
          <= Rotation
               * Count(decayItems[(lastBucket + 1) % EVENT_DECAY_BUCKETS], i)}

BucketEntries(w, i) == EnrollmentsIn(w, i) - Count(w.toDecayItems, i)

\* the state checkDecay's loop starts in, and the state it ends in
LoopStart == [w |-> tick(World), ok |-> TRUE, k |-> 1]
LoopEnd == decayLoop(LoopStart, (lastBucket + 1) % EVENT_DECAY_BUCKETS)

\* one turn of the loop took s to t: the bucket is as it was and the
\* iterator moved on, or the current element alone was erased
TurnKeeps(s, t, bucket) ==
  \/ /\ t.w.decayItems[bucket] = s.w.decayItems[bucket]
     /\ t.k = s.k + 1
  \/ /\ t.w.decayItems[bucket] = RemoveAt(s.w.decayItems[bucket], s.k)
     /\ t.k = s.k

RECURSIVE BucketSteady(_, _)
TurnSteady(s, t, bucket) == TurnKeeps(s, t, bucket) /\ BucketSteady(t, bucket)
BucketSteady(s, bucket) ==
  IF s.k > Len(s.w.decayItems[bucket]) THEN TRUE
  ELSE TurnSteady(s, decayStep(s.w, s.ok, bucket, s.k,
                               s.w.decayItems[bucket][s.k]), bucket)

Sweepers == {"cleanup", "checkDecay", "checkCreatures", "checkCreatureWalk"}

\* a step gave back a reference of an item or of a creature
GaveBack ==
  \/ \E i \in Items :
       item[i].id # NoType
         /\ (item'[i].id = NoType \/ item'[i].refs < item[i].refs)
  \/ \E c \in Creatures : creature'[c].refs < creature[c].refs

\* a step left the pending-release lists as they were or longer
OnlyAppended ==
  /\ Len(ToReleaseItems') >= Len(ToReleaseItems)
  /\ SubSeq(ToReleaseItems', 1, Len(ToReleaseItems)) = ToReleaseItems
  /\ Len(ToReleaseCreatures') >= Len(ToReleaseCreatures)
  /\ SubSeq(ToReleaseCreatures', 1, Len(ToReleaseCreatures))
       = ToReleaseCreatures

\* the sweep takes one reference for every entry of the lists
SweptOnce ==
  /\ \A i \in Items :
       item[i].id # NoType =>
         IF item[i].refs > Count(ToReleaseItems, i)
         THEN cleanup(World, lastBucket).item[i].refs
                = item[i].refs - Count(ToReleaseItems, i)
         ELSE cleanup(World, lastBucket).item[i] = FreeItem
  /\ \A c \in Creatures :
       cleanupCreatures(CreatureWorld).creature[c].refs
         = creature[c].refs - Count(ToReleaseCreatures, c)
  /\ cleanup(World, lastBucket).ToReleaseItems = <<>>
  /\ cleanupCreatures(CreatureWorld).ToReleaseCreatures = <<>>

\* what the loops of checkDecay and checkCreatures released is alive when
\* the loop ends
AliveInTick ==
  /\ \A i \in Items :
       item[i].id # NoType =>
         /\ LoopEnd.w.item[i].id # NoType
         /\ LoopEnd.w.item[i].refs >= item[i].refs
  /\ \A index \in CreatureBuckets : \A c \in Creatures :
       checkCreatureLoop(CreatureWorld, index, 1, {}).creature[c].refs
         = creature[c].refs

Callbacks(index, dead) == checkCreatureLoop(CreatureWorld, index, 1, dead).log

\* creature c is in no check list and only its maker holds a reference
Erased(c) ==
  /\ ~creature[c].inCheckCreaturesVector
  /\ \A b \in CreatureBuckets : Count(checkCreatureLists[b], c) = 0
  /\ Count(ToReleaseCreatures, c) = 0
  /\ creature[c].refs = 1

\* a removed creature gets no callback, and no reference is given back twice
NoThinkAfterRemove ==
  \A c \in Creatures :
    /\ creature[c].refs - Count(ToReleaseCreatures, c) >= 1
    /\ creature[c].removed =>
         \A index \in CreatureBuckets, dead \in SUBSET Creatures :
           \A k \in 1..Len(Callbacks(index, dead)) :
             Callbacks(index, dead)[k][2] # c

\* C32: after removeCreature(c) checkCreatures makes no think, attack or
\* condition callback for c, and when the ticks of every check list keep
\* coming c is eventually out of its check list for good, with the
\* reference of the list given back once.
ThinkStopsAfterRemove ==
  /\ []NoThinkAfterRemove
  /\ \A c \in Creatures : creature[c].removed ~> []Erased(c)

\* the tick of its list has erased the removed player
PlayerErased ==
  /\ last.op = "checkCreatures"
  /\ creature["c1"].removed
  /\ creature["c1"].id # 0
  /\ Erased("c1")

\* the entries creature c has in the check lists
CheckEntries(c) ==
  LET inLists[b \in -1..(EVENT_CREATURECOUNT - 1)] ==
        IF b = -1 THEN 0
        ELSE Count(checkCreatureLists[b], c) + inLists[b - 1]
  IN  inLists[EVENT_CREATURECOUNT - 1]

\* C33: every creature is in at most one check list and at most once in
\* it, inCheckCreaturesVector is true exactly when it is in a list, and
\* its references are its maker's, one while it is in the lookup table and
\* one while it is in a list, pending releases counted off.
CheckedOnce ==
  \A c \in Creatures :
    /\ CheckEntries(c) <= 1
    /\ creature[c].inCheckCreaturesVector <=> CheckEntries(c) = 1
    /\ creature[c].creatureCheck => creature[c].inCheckCreaturesVector
    /\ creature[c].refs - Count(ToReleaseCreatures, c)
         = 1 + (IF creature[c].listed THEN 1 ELSE 0) + CheckEntries(c)

\* the player was taken off the check and put on it again before the tick
\* of its list came
CheckedAgainBeforeSweep ==
  /\ last = Call("addCreatureCheck", "c1", "NOERROR")
  /\ creature["c1"].removed
  /\ creature["c1"].creatureCheck
  /\ CheckEntries("c1") = 1
  /\ Count(ToReleaseCreatures, "c1") = 1

(***************************************************************************)
(* Trade.  A transfer phase that was entered ends with the call of         *)
(* eventPlayerOnTradeCompleted (line 2828), which the log keeps with the   *)
(* two players, their two trade items and isSuccess.                       *)
(***************************************************************************)
Completed == {k \in 1..Len(log) : log[k][1] = "onTradeCompleted"}
\* the log has an entry of a holder that changed
HolderChanged ==
  \E k \in 1..Len(log) :
    log[k][1] \in {"addThing", "removeThing", "updateThing", "replaceThing"}

\* C34: whenever playerAcceptTrade enters the transfer phase, both players
\* have a trade item; a player in the acknowledge state that offered no
\* item does not bring the trade into the transfer phase by accepting.
TransferHasBothItems ==
  \A k \in Completed : log[k][4] # NoItem /\ log[k][5] # NoItem

\* C35: a trade that reaches the transfer phase is all or nothing: reported
\* as successful with each item carried by the other player, or reported
\* as failed with no holder changed.
AllOrNothing ==
  \A k \in Completed :
    IF log[k][6]
    THEN Carried(log[k][3], log[k][4]) /\ Carried(log[k][2], log[k][5])
    ELSE ~HolderChanged

\* the players that offer item i: in the initiated or the accept state
OfferedBy(i) ==
  {p \in Players : /\ player[p].tradeState
                        \in {"TRADE_INITIATED", "TRADE_ACCEPT"}
                   /\ player[p].tradeItem = i}

\* C36: after any sequence of playerRequestTrade, playerAcceptTrade and
\* playerCloseTrade calls, partners point at each other; a player in
\* TRADE_NONE has no partner and no trade item; tradeItems holds exactly
\* the trade items of the players in the initiated or the accept state,
\* each under its offerer's id and with one reference of its own; and no
\* item, nor an item inside it, is offered twice.
TradeBookKept ==
  /\ \A p \in Players :
       /\ player[p].tradePartner # NoPlayer
            => player[player[p].tradePartner].tradePartner = p
       /\ player[p].tradeState = "TRADE_NONE"
            => player[p].tradePartner = NoPlayer
               /\ player[p].tradeItem = NoItem
  /\ \A i \in Items :
       /\ tradeItems[i] # 0 <=> OfferedBy(i) # {}
       /\ tradeItems[i] # 0 => OfferedBy(i) = {getTraderByID(tradeItems[i])}
       /\ item[i].refs - Count(ToReleaseItems, i)
            = (IF Placed(i) THEN 1 ELSE 0)
              + (IF tradeItems[i] # 0 THEN 1 ELSE 0)
  /\ \A i, j \in TradedItems(GameWorld) :
       i # j => ~isHoldingItem(World, i, j)

\* the second player made its counter-offer after the first had accepted:
\* two entries, each under its offerer's id and with its reference
CounterOffered ==
  /\ last.op = "playerRequestTrade"
  /\ player["p1"].tradeState = "TRADE_ACCEPT"
  /\ player["p2"].tradeState = "TRADE_INITIATED"
  /\ player["p1"].tradeItem # NoItem
  /\ player["p2"].tradeItem # NoItem
  /\ tradeItems[player["p1"].tradeItem] = getID("p1")
  /\ tradeItems[player["p2"].tradeItem] = getID("p2")
  /\ item[player["p2"].tradeItem].refs = 2

\* the acceptance of the player with this id would enter the transfer phase
EntersTransfer(playerId) ==
  /\ getTraderByID(playerId) # NoPlayer
  /\ player[getTraderByID(playerId)].tradeState
       \in {"TRADE_ACKNOWLEDGE", "TRADE_INITIATED"}
  /\ player[getTraderByID(playerId)].tradePartner # NoPlayer
  /\ player[player[getTraderByID(playerId)].tradePartner].tradeState
       = "TRADE_ACCEPT"

\* the game in the transfer phase of players p and q, before the item moves
InTransfer(p, q) ==
  enterTransfer([GameWorld EXCEPT !.player[p].tradeState = "TRADE_ACCEPT"],
                p, q)

\* the game in the transfer phase after the item moves
Transferred(p, q) ==
  transferItems(InTransfer(p, q), p, q, player[p].tradeItem,
                player[q].tradeItem, FALSE).g

\* internalCloseTrade for either player leaves game g as it is
CloseKeeps(g, p, q) ==
  \A x \in {p, q}, sendCancel \in BOOLEAN :
    internalCloseTrade(g, x, sendCancel) = g

\* C37: internalCloseTrade invoked while the player or its partner is in
\* TRADE_TRANSFER, before or after the item moves of the transfer, changes
\* no trade state, partner, trade item or entry of tradeItems and sends
\* no message; an acceptance whose item moves call it ends as one whose
\* item moves do not.
CloseInTransferKeeps ==
  \A playerId \in PlayerIDs :
    EntersTransfer(playerId)
      => /\ CloseKeeps(InTransfer(getTraderByID(playerId),
                                  player[getTraderByID(playerId)].tradePartner),
                       getTraderByID(playerId),
                       player[getTraderByID(playerId)].tradePartner)
         /\ CloseKeeps(Transferred(getTraderByID(playerId),
                                   player[getTraderByID(playerId)].tradePartner),
                       getTraderByID(playerId),
                       player[getTraderByID(playerId)].tradePartner)
         /\ playerAcceptTrade(GameWorld, playerId, Consent(TRUE, FALSE), TRUE)
              = playerAcceptTrade(GameWorld, playerId, Consent(TRUE, FALSE),
                                  FALSE)

\* a transfer ended with both items moved while each move called
\* internalCloseTrade: nothing was cancelled, each player was closed once
ClosedDuringTransfer ==
  /\ last = Call("playerAcceptTrade", NoItem, "REENTERED")
  /\ \E k \in Completed : log[k][6]
  /\ Cardinality({k \in 1..Len(log) : log[k][1] = "addThing"}) = 2
  /\ \A k \in 1..Len(log) : log[k][1] # "sendTextMessage"
  /\ Cardinality({k \in 1..Len(log) : log[k][1] = "sendTradeClose"}) = 2

\* the last call was an addItem that answered NOERROR after the stack at
\* the destination took units of the incoming item (line 1308)
MergedOnAdd ==
  /\ last.op = "addItem"
  /\ last.ret = "NOERROR"
  /\ \E k \in 1..Len(log) : log[k][1] = "updateThing"

\* C38: when addItem merges an incoming stackable item only partly into a
\* stack of the destination, the incoming item is afterwards in a holder or
\* queued for release, and it is enrolled for decay only if it is in a
\* holder; it is never left alive with no holder and not pending.
MergedItemAccounted ==
  MergedOnAdd =>
    /\ HoldersOf(last.item) # {} \/ Count(ToReleaseItems, last.item) > 0
    /\ Count(toDecayItems, last.item) > 0 => HoldersOf(last.item) # {}

\* the item a pending move of an item was asked for is no longer where the
\* request saw it
RequestedLeft(task) ==
  /\ task # NoTask
  /\ task.f = "playerMoveItemByPlayerID"
  /\ ~(Placed("i1") /\ item["i1"].parent = getTile(task.fromPos))

\* C39: a delayed move of an item moves only the item the player asked for
\* (in SpecSwap always i1): when that item was moved or removed before the
\* retry runs and another item lies at the position, the retry does not
\* move the other item.
RetryMovesRequested ==
  \A slot \in TaskSlots, met \in Mets :
    RequestedLeft(scheduler[slot]) =>
      \A i \in Items \ {"i1"} :
        runTask(Taken(slot), scheduler[slot], met).w.item[i].parent
          = item[i].parent

\* the worth of all that lies in holder h or in a holder inside it
HeldIn(w, h) ==
  {i \in Items : /\ w.item[i].id # NoType
                 /\ w.item[i].parent # NoHolder
                 /\ Count(w.contents[w.item[i].parent], i) > 0
                 /\ inChain(w, w.item[i].parent, h)}
RECURSIVE WorthOf(_, _)
WorthOf(w, S) ==
  IF S = {} THEN 0
  ELSE LET i == CHOOSE x \in S : TRUE
       IN  getWorth(w, i) + WorthOf(w, S \ {i})
TotalWorth(w, h) == WorthOf(w, HeldIn(w, h))
\* the worth on the holder's tile that is not in the holder
Beside(w, h) == TotalWorth(w, getTileOf(w, h)) - TotalWorth(w, h)

\* C40: removeMoney(holder, m) with m > 0 answers true when the currency
\* items of the holder tree are worth at least m, and then the worth in the
\* tree plus the change dropped on the holder's tile is lower by exactly m;
\* it answers false when they are worth less, and then nothing is removed,
\* added or changed.
RemoveMoneyExact ==
  \A h \in MoneyHolders \cap LiveHolders, m \in Amounts :
    LET r == removeMoney(World, h, m, FALSE)
    IN  r.ok =>
          IF TotalWorth(World, h) >= m
          THEN /\ r.ret
               /\ TotalWorth(r.w, h) + (Beside(r.w, h) - Beside(World, h))
                    = TotalWorth(World, h) - m
          ELSE ~r.ret /\ r.w = World

\* removeMoney paid with the gem and gave the change in coins, which the
\* call put on the tile
ChangeGiven ==
  /\ last.op = "removeMoney"
  /\ last.ret = "TRUE"
  /\ Count(ToReleaseItems, "i2") > 0
  /\ \E k \in 1..Len(log) : log[k][1] = "addThing" /\ log[k][2] = "T3"

=============================================================================
